---- MODULE Spec2Model ----
(***************************************************************************)
(* The preset generator of presets/workspace/generator: one call of        *)
(* GeneratePreset, from its arguments to the (preset, error) it returns.   *)
(*                                                                         *)
(* Around it, the model register of pkg/utils/plugin and GetModelByName of *)
(* presets/workspace/models, which looks a model up, generates its preset  *)
(* when it has none, and registers the result.                             *)
(*                                                                         *)
(* Strings whose characters the code inspects (the model repository, file  *)
(* paths, table prefixes, the "<N>Gi" sizes) are sequences of one-character*)
(* strings; strings the code only copies or compares are TLA+ strings.     *)
(* A byte count is [gi |-> q, b |-> r], standing for q * 2^30 + r with     *)
(* 0 <= r < 2^30.  A JSON number is kept in halves: [t |-> "float64",      *)
(* h |-> k] is the float64 k / 2.                                          *)
(***************************************************************************)
EXTENDS Integers, Sequences, FiniteSets, TLC

VARIABLES
    pc,        \* where the call stands: start, awaitListing, awaitConfig, parse, finalize, done
    args,      \* the arguments of GeneratePreset: [modelRepo, token]
    hfToken,   \* the HF_TOKEN environment variable
    g,         \* the Generator; NoGenerator until NewGenerator has run
    requests,  \* the HTTP GETs issued so far, in order: [url, auth]
    listing,   \* the hub's answer to the file-listing request
    configDoc, \* the hub's answer to the config request
    ret,       \* what GeneratePreset returned: [preset, err]
    models,    \* KaitoModelRegister.models: name -> Registration
    mu,        \* the goroutine holding the register's lock, 0 when it is free
    calls,     \* each goroutine's call on the register: [at, op, name, inst, ret]
    log,       \* the Register calls that ran their body, in order: [Name, Instance, panicked]
    gm         \* the GetModelByName call: its arguments, position, effects and result

regVars == <<models, mu, calls, log, gm>>
vars == <<pc, args, hfToken, g, requests, listing, configDoc, ret, models, mu, calls, log, gm>>

----------------------------------------------------------------------------
(* Program constants *)

SystemFileDiskSizeGiB == 50
DefaultModelTokenLimit == 2048
HuggingFaceWebsite == "https://huggingface.co"
GiB == 1073741824
Float64Exact == 8388608      \* 2^53 bytes in GiB: beyond it a float64 has no odd integers
MantissaGiBits == 23         \* 53 mantissa bits less the 30 bits below one GiB

----------------------------------------------------------------------------
(* Characters, in byte order *)

Ascii == <<"-",".","/","0","1","2","3","4","5","6","7","8","9",
           "A","B","C","D","E","F","G","H","I","J","K","L","M",
           "N","O","P","Q","R","S","T","U","V","W","X","Y","Z","_",
           "a","b","c","d","e","f","g","h","i","j","k","l","m",
           "n","o","p","q","r","s","t","u","v","w","x","y","z">>

Ord(c) == CHOOSE i \in 1..Len(Ascii) : Ascii[i] = c

UpperA == 14
UpperZ == 39
CaseShift == 27

\* strings.ToLower on one character
LowerChar(c) == IF Ord(c) >= UpperA /\ Ord(c) <= UpperZ THEN Ascii[Ord(c) + CaseShift] ELSE c

\* strings.ToLower
ToLower(s) == [i \in 1..Len(s) |-> LowerChar(s[i])]

\* strings.HasPrefix
HasPrefix(s, p) == Len(p) <= Len(s) /\ SubSeq(s, 1, Len(p)) = p

\* strings.HasSuffix
HasSuffix(s, x) == Len(x) <= Len(s) /\ SubSeq(s, Len(s) - Len(x) + 1, Len(s)) = x

\* strings.TrimSuffix
TrimSuffix(s, x) == IF HasSuffix(s, x) THEN SubSeq(s, 1, Len(s) - Len(x)) ELSE s

\* lit occurs in s starting at position i
OccursAt(s, lit, i) ==
    /\ i >= 1
    /\ i + Len(lit) - 1 <= Len(s)
    /\ \A k \in 1..Len(lit) : s[i + k - 1] = lit[k]

\* the last element of strings.Split(s, "/")
LastPart(s) ==
    LET slashes == {i \in 1..Len(s) : s[i] = "/"}
    IN  IF slashes = {} THEN s
        ELSE SubSeq(s, (CHOOSE i \in slashes : \A j \in slashes : j <= i) + 1, Len(s))

\* a < b in the byte order sort.Strings uses
StrLess(a, b) ==
    \E i \in 1..Len(b) :
        /\ i <= Len(a) + 1
        /\ \A j \in 1..(i - 1) : a[j] = b[j]
        /\ \/ i = Len(a) + 1
           \/ Ord(a[i]) < Ord(b[i])

\* sort.Strings of the strings of S
RECURSIVE SortStrings(_)
SortStrings(S) ==
    IF S = {} THEN <<>>
    ELSE LET m == CHOOSE x \in S : \A y \in S : x = y \/ StrLess(x, y)
         IN  <<m>> \o SortStrings(S \ {m})

----------------------------------------------------------------------------
(* Decimal numbers in strings *)

Digits == {"0","1","2","3","4","5","6","7","8","9"}
DigitZero == 4
Ten == 10

DigitChar(d) == Ascii[d + DigitZero]
DigitVal(c) == Ord(c) - DigitZero

\* fmt.Sprintf("%d", n), and "%.0f" of a float64 holding the integer n
RECURSIVE FormatInt(_)
FormatInt(n) ==
    IF n < 0 THEN <<"-">> \o FormatInt(-n)
    ELSE IF n < Ten THEN <<DigitChar(n)>>
    ELSE FormatInt(n \div Ten) \o <<DigitChar(n % Ten)>>

RECURSIVE DigitsVal(_)
DigitsVal(s) ==
    IF s = <<>> THEN 0
    ELSE DigitsVal(SubSeq(s, 1, Len(s) - 1)) * Ten + DigitVal(s[Len(s)])

AllDigits(s) == s # <<>> /\ \A i \in 1..Len(s) : s[i] \in Digits

\* strconv.Atoi: an optional sign and decimal digits; [ok, v]
Atoi(s) ==
    LET signed == s # <<>> /\ s[1] \in {"-", "+"}
        body   == IF signed THEN Tail(s) ELSE s
    IN  IF AllDigits(body)
        THEN [ok |-> TRUE, v |-> IF signed /\ s[1] = "-" THEN -DigitsVal(body) ELSE DigitsVal(body)]
        ELSE [ok |-> FALSE, v |-> 0]

\* strconv.ParseFloat of the strings calculateStorageSize meets; the error is dropped, leaving 0
ParseFloat(s) == IF Atoi(s).ok THEN Atoi(s).v ELSE 0

----------------------------------------------------------------------------
(* The parser tables *)

reasoningParserMapOverlapping ==
      (<<"q","w","e","n","3">> :> "qwen3")   \* "qwen3"
   @@ (<<"q","w","e","n","3","-","c","o","d","e","r">> :> "qwen3_coder")   \* "qwen3-coder"

reasoningParserMap ==
      (<<"d","e","e","p","s","e","e","k","-","r","1">> :> "deepseek_r1")   \* "deepseek-r1"
   @@ (<<"d","e","e","p","s","e","e","k","-","v","3">> :> "deepseek_v3")   \* "deepseek-v3"
   @@ (<<"e","r","n","i","e","-","4",".","5">> :> "ernie45")   \* "ernie-4.5"
   @@ (<<"g","l","m","-","4",".","5">> :> "glm45")   \* "glm-4.5"
   @@ (<<"h","u","n","y","u","a","n","-","a","1","3","b">> :> "hunyuan_a13b")   \* "hunyuan-a13b"
   @@ (<<"g","r","a","n","i","t","e","-","3",".","2">> :> "granite")   \* "granite-3.2"
   @@ (<<"m","i","n","i","m","a","x","-","m","2">> :> "minimax_m2_append_think")   \* "minimax-m2"
   @@ (<<"q","w","e","n","3">> :> "qwen3")   \* "qwen3"
   @@ (<<"q","w","q","-","3","2","b">> :> "deepseek_r1")   \* "qwq-32b"

toolCallParserMap ==
      (<<"h","e","r","m","e","s","-","2">> :> "hermes")   \* "hermes-2"
   @@ (<<"h","e","r","m","e","s","-","3">> :> "hermes")   \* "hermes-3"
   @@ (<<"m","i","s","t","r","a","l">> :> "mistral")   \* "mistral"
   @@ (<<"m","e","t","a","-","l","l","a","m","a","-","3">> :> "llama3_json")   \* "meta-llama-3"
   @@ (<<"m","e","t","a","-","l","l","a","m","a","-","4">> :> "llama4_pythonic")   \* "meta-llama-4"
   @@ (<<"g","r","a","n","i","t","e","-","3">> :> "granite")   \* "granite-3"
   @@ (<<"g","r","a","n","i","t","e","-","4">> :> "hermes")   \* "granite-4"
   @@ (<<"i","n","t","e","r","n","l","m">> :> "internlm")   \* "internlm"
   @@ (<<"a","i","2","1","-","j","a","m","b","a">> :> "jamba")   \* "ai21-jamba"
   @@ (<<"q","w","q","-","3","2","b">> :> "hermes")   \* "qwq-32b"
   @@ (<<"q","w","e","n","2",".","5">> :> "hermes")   \* "qwen2.5"
   @@ (<<"m","i","n","i","m","a","x">> :> "minimax")   \* "minimax"
   @@ (<<"d","e","e","p","s","e","e","k","-","r","1">> :> "deepseek_v3")   \* "deepseek-r1"
   @@ (<<"d","e","e","p","s","e","e","k","-","v","3">> :> "deepseek_v3")   \* "deepseek-v3"
   @@ (<<"d","e","e","p","s","e","e","k","-","v","3",".","1">> :> "deepseek_v31")   \* "deepseek-v3.1"
   @@ (<<"k","i","m","i","_","k","2">> :> "kimi_k2")   \* "kimi_k2"
   @@ (<<"h","u","n","y","u","a","n","-","a","1","3","b">> :> "hunyuan_a13b")   \* "hunyuan-a13b"
   @@ (<<"l","o","n","g","c","a","t">> :> "longcat")   \* "longcat"
   @@ (<<"g","l","m","-","4">> :> "glm45")   \* "glm-4"
   @@ (<<"q","w","e","n","3">> :> "hermes")   \* "qwen3"
   @@ (<<"q","w","e","n","3","-","c","o","d","e","r">> :> "qwen3_xml")   \* "qwen3-coder"
   @@ (<<"o","l","m","o","-","3">> :> "olmo3")   \* "olmo-3"

Lit_safetensors == <<".","s","a","f","e","t","e","n","s","o","r","s">>   \* ".safetensors"
Lit_bin == <<".","b","i","n">>   \* ".bin"
Lit_consolidated == <<"c","o","n","s","o","l","i","d","a","t","e","d">>   \* "consolidated"
Lit_mistral_large_3 == <<"m","i","s","t","r","a","l","-","l","a","r","g","e","-","3">>   \* "mistral-large-3"
Lit_ministral_3 == <<"m","i","n","i","s","t","r","a","l","-","3">>   \* "ministral-3"
Lit_Gi == <<"G","i">>   \* "Gi"

----------------------------------------------------------------------------
(* The three patterns.  regexp.MatchString is unanchored: the pattern may  *)
(* match anywhere in the path.                                             *)

\* safetensorRegex = `.*\.safetensors`
safetensorRegex(path) == \E i \in 1..Len(path) : OccursAt(path, Lit_safetensors, i)

\* binRegex = `.*\.bin`
binRegex(path) == \E i \in 1..Len(path) : OccursAt(path, Lit_bin, i)

\* mistralRegex = `consolidated.*\.safetensors`
mistralRegex(path) ==
    \E i \in 1..Len(path) :
        /\ OccursAt(path, Lit_consolidated, i)
        /\ \E j \in (i + Len(Lit_consolidated))..Len(path) : OccursAt(path, Lit_safetensors, j)

----------------------------------------------------------------------------
(* Byte counts and the float64 arithmetic of the size computation *)

ZeroBytes == [gi |-> 0, b |-> 0]

\* int64 addition (totalBytes += f.Size)
AddBytes(x, y) ==
    [gi |-> x.gi + y.gi + ((x.b + y.b) \div GiB), b |-> (x.b + y.b) % GiB]

RECURSIVE SumSizes(_)
SumSizes(files) ==
    IF files = <<>> THEN ZeroBytes
    ELSE AddBytes(SumSizes(SubSeq(files, 1, Len(files) - 1)), files[Len(files)].Size)

RECURSIVE BitLen(_)
BitLen(n) == IF n = 0 THEN 0 ELSE 1 + BitLen(n \div 2)

\* the spacing of float64 values around x: 1 below 2^53, then doubling with each bit
Ulp(x) == IF x.gi < Float64Exact THEN 1 ELSE 2 ^ (BitLen(x.gi) - MantissaGiBits)

\* float64(totalBytes): the nearest float64, ties to the even mantissa
ToFloat64(x) ==
    LET u    == Ulp(x)
        m    == x.b \div u
        rem  == x.b % u
        up   == 2 * rem > u \/ (2 * rem = u /\ m % 2 = 1)
        r    == (IF up THEN m + 1 ELSE m) * u
    IN  IF r = GiB THEN [gi |-> x.gi + 1, b |-> 0] ELSE [gi |-> x.gi, b |-> r]

\* math.Ceil(float64(totalBytes) / (1024 * 1024 * 1024)); the division by 2^30 is exact
CeilGiB(x) ==
    LET f == ToFloat64(x) IN IF f.b > 0 THEN f.gi + 1 ELSE f.gi

\* fmt.Sprintf("%.0fGi", math.Ceil(modelSizeGB))
FormatModelFileSize(totalBytes) == FormatInt(CeilGiB(totalBytes)) \o Lit_Gi

\* calculateStorageSize
calculateStorageSize(modelFileSize) ==
    LET szStr == TrimSuffix(modelFileSize, Lit_Gi)
        sz    == ParseFloat(szStr)
        req   == sz + SystemFileDiskSizeGiB
    IN  FormatInt(req) \o Lit_Gi

----------------------------------------------------------------------------
(* The format classifier of FetchModelMetadata *)

\* the files the first loop appends to mistralFiles
MistralFiles(files) ==
    LET Test(f) == mistralRegex(f.Path) IN SelectSeq(files, Test)

\* the files the first loop appends to selectedFiles
WeightFiles(files) ==
    LET Test(f) == safetensorRegex(f.Path) \/ binRegex(f.Path) IN SelectSeq(files, Test)

NarrowNever(selected) == selected

\* "Prefer safetensors if mixed with bin"
NarrowToSafetensors(selected) ==
    LET IsSafe(f) == HasSuffix(f.Path, Lit_safetensors)
        hasSafetensors == \E i \in 1..Len(selected) : IsSafe(selected[i])
    IN  IF hasSafetensors THEN SelectSeq(selected, IsSafe) ELSE selected

ClassifyWithFallback(files) ==
    IF Len(MistralFiles(files)) > 0
    THEN [found |-> TRUE, mistral |-> TRUE, configFile |-> "params.json",
          selected |-> MistralFiles(files)]
    ELSE [found |-> TRUE, mistral |-> FALSE, configFile |-> "config.json",
          selected |-> NarrowToSafetensors(WeightFiles(files))]

\* the format decision: [found, mistral, configFile, selected]
Classify(files) ==
    IF Len(MistralFiles(files)) > 0
    THEN [found |-> TRUE, mistral |-> TRUE, configFile |-> "params.json",
          selected |-> MistralFiles(files)]
    ELSE IF Len(WeightFiles(files)) > 0
    THEN [found |-> TRUE, mistral |-> FALSE, configFile |-> "config.json",
          selected |-> NarrowToSafetensors(WeightFiles(files))]
    ELSE [found |-> FALSE, mistral |-> FALSE, configFile |-> "", selected |-> <<>>]

----------------------------------------------------------------------------
(* JSON values of the config document, as json.Unmarshal leaves them in a  *)
(* map[string]interface{}                                                  *)

Num(n)   == [t |-> "float64", h |-> 2 * n]
Half(k)  == [t |-> "float64", h |-> k]
Str(s)   == [t |-> "string", s |-> s]
Bool(v)  == [t |-> "bool", v |-> v]
Null     == [t |-> "nil"]
Arr(a)   == [t |-> "array", a |-> a]

EmptyConfig == [k \in {} |-> Null]

\* int(v) for a float64 v: the fraction is dropped, toward zero
FloatToInt(h) == IF h >= 0 THEN h \div 2 ELSE -((-h) \div 2)

CoerceNumbersOnly(val) ==
    IF val.t = "float64" THEN [ok |-> TRUE, v |-> FloatToInt(val.h)]
    ELSE [ok |-> FALSE, v |-> 0]

\* the type switch of getInt: [ok, v]
Coerce(val) ==
    IF val.t = "float64" THEN [ok |-> TRUE, v |-> FloatToInt(val.h)]
    ELSE IF val.t = "string" THEN Atoi(val.s)
    ELSE [ok |-> FALSE, v |-> 0]

RECURSIVE getInt(_, _, _)
getInt(config, keys, defaultVal) ==
    IF keys = <<>> THEN defaultVal
    ELSE IF Head(keys) \in DOMAIN config /\ Coerce(config[Head(keys)]).ok
         THEN Coerce(config[Head(keys)]).v
         ELSE getInt(config, Tail(keys), defaultVal)

----------------------------------------------------------------------------
(* calculateKVCacheTokenSize *)

HiddenSizeKeys   == <<"hidden_size", "n_embd", "d_model">>
HiddenLayersKeys == <<"num_hidden_layers", "n_layer", "n_layers">>
AttentionKeys    == <<"num_attention_heads", "n_head", "n_heads">>
KVHeadsKeys      == <<"num_key_value_heads", "n_head_kv", "n_kv_heads">>
TokenLimitKeys   == <<"max_position_embeddings", "n_ctx", "seq_length", "max_seq_len",
                      "max_sequence_length">>
NoKvLoraRank == -1

DeriveHeadDimNever(headDim, hiddenSize, attentionHeads) == headDim

\* if headDim == 0 && attentionHeads > 0 { headDim = hiddenSize / attentionHeads }
DeriveHeadDim(headDim, hiddenSize, attentionHeads) ==
    IF headDim = 0 /\ attentionHeads > 0 THEN hiddenSize \div attentionHeads ELSE headDim

\* "Fallback KV heads"
FallbackKVHeads(kvHeads, attentionHeads, config) ==
    IF kvHeads = 0 /\ attentionHeads > 0
    THEN IF "multi_query" \in DOMAIN config /\ config["multi_query"] = Bool(TRUE)
         THEN 1
         ELSE attentionHeads
    ELSE kvHeads

AttentionHeadsFirst(kvLoraRank, qkRopeHeadDim, attentionHeads, kvHeads, headDim) ==
    IF attentionHeads > 0 /\ kvHeads > 0 /\ headDim > 0
    THEN [elementsPerToken |-> 2 * kvHeads * headDim,
          attnType |-> IF attentionHeads = kvHeads THEN "MHA"
                       ELSE IF kvHeads = 1 THEN "MQA" ELSE "GQA"]
    ELSE IF kvLoraRank # NoKvLoraRank
    THEN [elementsPerToken |-> kvLoraRank + qkRopeHeadDim, attnType |-> "MLA"]
    ELSE [elementsPerToken |-> 0, attnType |-> "Unknown"]

AttentionMQAFirst(kvLoraRank, qkRopeHeadDim, attentionHeads, kvHeads, headDim) ==
    IF kvLoraRank # NoKvLoraRank
    THEN [elementsPerToken |-> kvLoraRank + qkRopeHeadDim, attnType |-> "MLA"]
    ELSE IF attentionHeads > 0 /\ kvHeads > 0 /\ headDim > 0
    THEN [elementsPerToken |-> 2 * kvHeads * headDim,
          attnType |-> IF kvHeads = 1 THEN "MQA"
                       ELSE IF attentionHeads = kvHeads THEN "MHA" ELSE "GQA"]
    ELSE [elementsPerToken |-> 0, attnType |-> "Unknown"]

AttentionRopeAware(kvLoraRank, qkRopeHeadDim, attentionHeads, kvHeads, headDim) ==
    IF kvLoraRank # NoKvLoraRank /\ qkRopeHeadDim > 0
    THEN [elementsPerToken |-> kvLoraRank + qkRopeHeadDim, attnType |-> "MLA"]
    ELSE IF attentionHeads > 0 /\ kvHeads > 0 /\ headDim > 0
    THEN [elementsPerToken |-> 2 * kvHeads * headDim,
          attnType |-> IF attentionHeads = kvHeads THEN "MHA"
                       ELSE IF kvHeads = 1 THEN "MQA" ELSE "GQA"]
    ELSE [elementsPerToken |-> 0, attnType |-> "Unknown"]

AttentionNoGuard(kvLoraRank, qkRopeHeadDim, attentionHeads, kvHeads, headDim) ==
    IF kvLoraRank # NoKvLoraRank
    THEN [elementsPerToken |-> kvLoraRank + qkRopeHeadDim, attnType |-> "MLA"]
    ELSE [elementsPerToken |-> 2 * kvHeads * headDim,
          attnType |-> IF attentionHeads = kvHeads THEN "MHA"
                       ELSE IF kvHeads = 1 THEN "MQA" ELSE "GQA"]

\* the classification, from attnType := "Unknown" to the end of the if chain
Attention(kvLoraRank, qkRopeHeadDim, attentionHeads, kvHeads, headDim) ==
    IF kvLoraRank # NoKvLoraRank
    THEN [elementsPerToken |-> kvLoraRank + qkRopeHeadDim, attnType |-> "MLA"]
    ELSE IF attentionHeads > 0 /\ kvHeads > 0 /\ headDim > 0
    THEN [elementsPerToken |-> 2 * kvHeads * headDim,
          attnType |-> IF attentionHeads = kvHeads THEN "MHA"
                       ELSE IF kvHeads = 1 THEN "MQA" ELSE "GQA"]
    ELSE [elementsPerToken |-> 0, attnType |-> "Unknown"]

TokenSizeNoFp16(elementsPerToken, hiddenLayers) == elementsPerToken * hiddenLayers

\* totalElements := elementsPerToken * hiddenLayers; tokenSize := totalElements * 2
TokenSize(elementsPerToken, hiddenLayers) == (elementsPerToken * hiddenLayers) * 2

\* [tokenSize, attnType]
calculateKVCacheTokenSize(config) ==
    LET hiddenSize     == getInt(config, HiddenSizeKeys, 0)
        hiddenLayers   == getInt(config, HiddenLayersKeys, 0)
        attentionHeads == getInt(config, AttentionKeys, 0)
        kvHeads0       == getInt(config, KVHeadsKeys, 0)
        headDim0       == getInt(config, <<"head_dim">>, 0)
        headDim        == DeriveHeadDim(headDim0, hiddenSize, attentionHeads)
        kvLoraRank     == getInt(config, <<"kv_lora_rank">>, NoKvLoraRank)
        qkRopeHeadDim  == getInt(config, <<"qk_rope_head_dim">>, 0)
        kvHeads        == FallbackKVHeads(kvHeads0, attentionHeads, config)
        a              == Attention(kvLoraRank, qkRopeHeadDim, attentionHeads, kvHeads, headDim)
    IN  [tokenSize |-> TokenSize(a.elementsPerToken, hiddenLayers), attnType |-> a.attnType]

----------------------------------------------------------------------------
(* ParseModelMetadata *)

EmptySlice == [isNil |-> FALSE, items |-> <<>>]
NilSlice   == [isNil |-> TRUE, items |-> <<>>]

ParseArchitecturesByName(config, name) ==
    IF HasPrefix(name, Lit_mistral_large_3)
    THEN [isNil |-> FALSE, items |-> <<"MistralLarge3ForCausalLM">>]
    ELSE IF HasPrefix(name, Lit_ministral_3)
    THEN [isNil |-> FALSE, items |-> <<"Mistral3ForConditionalGeneration">>]
    ELSE LET arch == IF "architectures" \in DOMAIN config /\ config["architectures"].t = "array"
                     THEN config["architectures"].a ELSE <<>>
             IsStr(v) == v.t = "string"
             strs == SelectSeq(arch, IsStr)
         IN  [isNil |-> FALSE, items |-> [i \in 1..Len(strs) |-> strs[i].s]]

\* the strings of the config's "architectures" array, then the override by name
ParseArchitectures(config, name) ==
    LET arch   == IF "architectures" \in DOMAIN config /\ config["architectures"].t = "array"
                  THEN config["architectures"].a ELSE <<>>
        IsStr(v) == v.t = "string"
        strs   == SelectSeq(arch, IsStr)
        parsed == [i \in 1..Len(strs) |-> strs[i].s]
    IN  IF Len(parsed) # 0 THEN [isNil |-> FALSE, items |-> parsed]
        ELSE IF HasPrefix(name, Lit_mistral_large_3)
             THEN [isNil |-> FALSE, items |-> <<"MistralLarge3ForCausalLM">>]
        ELSE IF HasPrefix(name, Lit_ministral_3)
             THEN [isNil |-> FALSE, items |-> <<"Mistral3ForConditionalGeneration">>]
        ELSE EmptySlice

\* range over reasoningParserMap, in any order, stopping at the first prefix of the name:
\* the values the loop can leave in ReasoningParser
ReasoningParserChoices(name, current) ==
    LET matching == {p \in DOMAIN reasoningParserMap : HasPrefix(name, p)}
    IN  IF matching = {} THEN {current} ELSE {reasoningParserMap[p] : p \in matching}

RECURSIVE FirstMatch(_, _, _)
FirstMatch(prefixes, name, current) ==
    IF prefixes = <<>> THEN current
    ELSE IF HasPrefix(name, Head(prefixes)) THEN toolCallParserMap[Head(prefixes)]
    ELSE FirstMatch(Tail(prefixes), name, current)

\* for _, prefix := range prefixes { if HasPrefix { ToolCallParser = ... } }: no break
RECURSIVE LastMatch(_, _, _)
LastMatch(prefixes, name, current) ==
    IF prefixes = <<>> THEN current
    ELSE LastMatch(Tail(prefixes), name,
                   IF HasPrefix(name, Head(prefixes)) THEN toolCallParserMap[Head(prefixes)]
                   ELSE current)

SortedToolPrefixes == SortStrings(DOMAIN toolCallParserMap)

SelectToolCallParserFirst(name, current) == FirstMatch(SortedToolPrefixes, name, current)

\* the keys of toolCallParserMap sorted, then matched in that order
SelectToolCallParser(name, current) == LastMatch(SortedToolPrefixes, name, current)

----------------------------------------------------------------------------
(* The Generator and HTTP *)

NoErr == [kind |-> "nil"]
NoGenerator == [created |-> FALSE]
NilParams == [isNil |-> TRUE, kv |-> [k \in {} |-> ""]]
MadeParams == [isNil |-> FALSE, kv |-> [k \in {} |-> ""]]

NewGenerator(modelRepo, token) ==
    [created       |-> TRUE,
     ModelRepo     |-> modelRepo,
     Token         |-> token,
     LoadFormat    |-> "auto",
     ConfigFormat  |-> "auto",
     TokenizerMode |-> "auto",
     ModelConfig   |-> EmptyConfig,
     Param |-> [Name                   |-> ToLower(LastPart(modelRepo)),
                Architectures          |-> NilSlice,
                ModelType              |-> "tfs",
                Version                |-> <<HuggingFaceWebsite, "/">> \o modelRepo,
                DownloadAtRuntime      |-> TRUE,
                DownloadAuthRequired   |-> FALSE,
                DiskStorageRequirement |-> FormatInt(SystemFileDiskSizeGiB) \o Lit_Gi,
                ModelFileSize          |-> <<"0">> \o Lit_Gi,
                BytesPerToken          |-> 0,
                ModelTokenLimit        |-> 0,
                ReasoningParser        |-> "",
                ToolCallParser         |-> "",
                AttnType               |-> "",
                VLLM |-> [ModelName |-> <<>>, ModelRunParams |-> NilParams]]]

getAuthHeader(gen, envToken) ==
    IF gen.Token # "" THEN <<"Bearer ", gen.Token>>
    ELSE IF envToken # "" THEN <<"Bearer ", envToken>>
    ELSE <<>>

ListingURL(repo) ==
    <<HuggingFaceWebsite, "/api/models/">> \o repo \o <<"/tree/main?recursive=true">>

ConfigURLAsListing(repo, configFile) == ListingURL(repo)

ConfigURL(repo, configFile) ==
    <<HuggingFaceWebsite, "/">> \o repo \o <<"/resolve/main/", configFile>>

Request(gen, envToken, url) == [url |-> url, auth |-> getAuthHeader(gen, envToken)]

fetchURLStatusFirst(gen, envToken, url, r) ==
    LET denied == ~r.netErr /\ r.status \in {401, 403}
    IN  [g   |-> IF denied THEN [gen EXCEPT !.Param.DownloadAuthRequired = TRUE] ELSE gen,
         err |-> IF r.netErr THEN [kind |-> "transport", url |-> url]
                 ELSE IF r.status # 200
                      THEN [kind |-> "status", url |-> url, status |-> r.status]
                 ELSE NoErr]

fetchURLFlagOnAnyFailure(gen, envToken, url, r) ==
    LET auth   == getAuthHeader(gen, envToken)
        denied == ~r.netErr /\ r.status \in {401, 403}
    IN  [g   |-> IF ~r.netErr /\ r.status # 200
                 THEN [gen EXCEPT !.Param.DownloadAuthRequired = TRUE] ELSE gen,
         err |-> IF r.netErr THEN [kind |-> "transport", url |-> url]
                 ELSE IF denied /\ auth = <<>>
                      THEN [kind |-> "authentication required", url |-> url]
                 ELSE IF r.status # 200
                      THEN [kind |-> "status", url |-> url, status |-> r.status]
                 ELSE NoErr]

fetchURLFlagWhenAuthenticated(gen, envToken, url, r) ==
    LET auth   == getAuthHeader(gen, envToken)
        denied == ~r.netErr /\ r.status \in {401, 403}
    IN  [g   |-> IF denied \/ auth # <<>>
                 THEN [gen EXCEPT !.Param.DownloadAuthRequired = TRUE] ELSE gen,
         err |-> IF r.netErr THEN [kind |-> "transport", url |-> url]
                 ELSE IF denied /\ auth = <<>>
                      THEN [kind |-> "authentication required", url |-> url]
                 ELSE IF r.status # 200
                      THEN [kind |-> "status", url |-> url, status |-> r.status]
                 ELSE NoErr]

\* fetchURL once the response r is in: the generator after it, and the error it returns
fetchURL(gen, envToken, url, r) ==
    LET auth   == getAuthHeader(gen, envToken)
        denied == ~r.netErr /\ r.status \in {401, 403}
    IN  [g   |-> IF denied THEN [gen EXCEPT !.Param.DownloadAuthRequired = TRUE] ELSE gen,
         err |-> IF r.netErr THEN [kind |-> "transport", url |-> url]
                 ELSE IF denied /\ auth = <<>>
                      THEN [kind |-> "authentication required", url |-> url]
                 ELSE IF r.status # 200
                      THEN [kind |-> "status", url |-> url, status |-> r.status]
                 ELSE NoErr]

Wrap(stage, err) == [kind |-> stage, cause |-> err]

----------------------------------------------------------------------------
(* The steps of one GeneratePreset call *)

FailWithPartialPreset(gen, e) ==
    /\ g' = gen
    /\ ret' = [returned |-> TRUE, preset |-> <<gen.Param>>, err |-> e]
    /\ pc' = "done"
    /\ UNCHANGED requests

\* Generate returns (nil, e); GeneratePreset passes it on
Fail(gen, e) ==
    /\ g' = gen
    /\ ret' = [returned |-> TRUE, preset |-> <<>>, err |-> e]
    /\ pc' = "done"
    /\ UNCHANGED requests

EmptyRepoAccepted(modelRepo) == FALSE

\* if modelRepo == "" { return nil, errors.New("model repo is required") }
EmptyRepoRejected(modelRepo) == modelRepo = <<>>

\* GeneratePreset up to the first client.Do: the check of the argument, NewGenerator,
\* and the file-listing request of FetchModelMetadata
GeneratePreset ==
    /\ pc = "start"
    /\ IF EmptyRepoRejected(args.modelRepo)
       THEN /\ ret' = [returned |-> TRUE, preset |-> <<>>,
                       err |-> [kind |-> "model repo is required"]]
            /\ pc' = "done"
            /\ UNCHANGED <<g, requests>>
       ELSE LET gen == NewGenerator(args.modelRepo, args.token)
            IN  /\ g' = gen
                /\ requests' = Append(requests, Request(gen, hfToken, ListingURL(gen.ModelRepo)))
                /\ pc' = "awaitListing"
                /\ UNCHANGED ret
    /\ UNCHANGED <<args, hfToken, listing, configDoc, regVars>>

\* FetchModelMetadata from the listing response to the config request
ListingResponse(Resps) ==
    /\ pc = "awaitListing"
    /\ \E r \in Resps :
         LET out == fetchURL(g, hfToken, ListingURL(g.ModelRepo), r)
         IN  /\ listing' = r
             /\ IF out.err # NoErr
                THEN Fail(out.g, Wrap("error listing files", out.err))
                ELSE IF r.body.json \notin {"array", "null"}
                THEN Fail(out.g, Wrap("error parsing file list", [kind |-> "json"]))
                ELSE LET c == Classify(IF r.body.json = "array" THEN r.body.files ELSE <<>>)
                     IN  IF ~c.found
                         THEN Fail(out.g, [kind |-> "no .safetensors or .bin files found"])
                         ELSE LET gen == [out.g EXCEPT
                                            !.LoadFormat    = IF c.mistral THEN "mistral" ELSE @,
                                            !.ConfigFormat  = IF c.mistral THEN "mistral" ELSE @,
                                            !.TokenizerMode = IF c.mistral THEN "mistral" ELSE @,
                                            !.Param.ModelFileSize =
                                                FormatModelFileSize(SumSizes(c.selected)),
                                            !.Param.VLLM.ModelRunParams = MadeParams]
                              IN  /\ g' = gen
                                  /\ requests' = Append(requests,
                                        Request(gen, hfToken, ConfigURL(gen.ModelRepo, c.configFile)))
                                  /\ pc' = "awaitConfig"
                                  /\ UNCHANGED ret
    /\ UNCHANGED <<args, hfToken, configDoc, regVars>>

\* FetchModelMetadata from the config response to its return
ConfigResponse(Resps) ==
    /\ pc = "awaitConfig"
    /\ \E r \in Resps :
         LET out == fetchURL(g, hfToken, requests[Len(requests)].url, r)
         IN  /\ configDoc' = r
             /\ IF out.err # NoErr
                THEN Fail(out.g, Wrap("error fetching config", out.err))
                ELSE IF r.body.json = "malformed"
                THEN Fail(out.g, Wrap("error parsing config", [kind |-> "json"]))
                ELSE /\ g' = [out.g EXCEPT !.ModelConfig =
                                 IF r.body.json = "object" THEN r.body.config ELSE EmptyConfig]
                     /\ pc' = "parse"
                     /\ UNCHANGED <<ret, requests>>
    /\ UNCHANGED <<args, hfToken, listing, regVars>>

ParseModelMetadata ==
    /\ pc = "parse"
    /\ \E rp \in ReasoningParserChoices(g.Param.Name, g.Param.ReasoningParser) :
         g' = [g EXCEPT
                 !.Param.ModelTokenLimit =
                     getInt(g.ModelConfig, TokenLimitKeys, DefaultModelTokenLimit),
                 !.Param.Architectures = ParseArchitectures(g.ModelConfig, g.Param.Name),
                 !.Param.ReasoningParser = rp,
                 !.Param.ToolCallParser = SelectToolCallParser(g.Param.Name, @)]
    /\ pc' = "finalize"
    /\ UNCHANGED <<args, hfToken, requests, listing, configDoc, ret, regVars>>

\* FinalizeParams, and the return of Generate and GeneratePreset: (&g.Param, nil)
FinalizeParams ==
    /\ pc = "finalize"
    /\ LET kv  == calculateKVCacheTokenSize(g.ModelConfig)
           old == g.Param.VLLM.ModelRunParams.kv
           gen == [g EXCEPT
                     !.Param.DiskStorageRequirement = calculateStorageSize(g.Param.ModelFileSize),
                     !.Param.VLLM.ModelName = g.Param.Name,
                     !.Param.VLLM.ModelRunParams =
                         [isNil |-> FALSE,
                          kv |-> ("load_format" :> g.LoadFormat)
                                 @@ ("config_format" :> g.ConfigFormat)
                                 @@ ("tokenizer_mode" :> g.TokenizerMode) @@ old],
                     !.Param.BytesPerToken = kv.tokenSize,
                     !.Param.AttnType = kv.attnType]
       IN  /\ g' = gen
           /\ ret' = [returned |-> TRUE, preset |-> <<gen.Param>>, err |-> NoErr]
    /\ pc' = "done"
    /\ UNCHANGED <<args, hfToken, requests, listing, configDoc, regVars>>

----------------------------------------------------------------------------
(* The model register: ModelRegister of pkg/utils/plugin *)

\* a nil model.Model, and the instances callers register
NilModel == [kind |-> "nil"]
MockModel(id) == [kind |-> "mock", id |-> id]
Registration(name, inst) == [Name |-> name, Instance |-> inst]

\* reg.models before the first Register: a nil map reads as an empty one
EmptyRegistry == [n \in {} |-> Registration(<<>>, NilModel)]

RegisterKeepFirst(ms, r) ==
    IF r.Name = <<>> THEN [panicked |-> TRUE, models |-> ms]
    ELSE [panicked |-> FALSE,
          models |-> [n \in DOMAIN ms \cup {r.Name} |-> IF n \in DOMAIN ms THEN ms[n] ELSE r]]

\* Register between Lock and the deferred Unlock: [panicked, models]
Register(ms, r) ==
    IF r.Name = <<>> THEN [panicked |-> TRUE, models |-> ms]
    ELSE [panicked |-> FALSE,
          models |-> [n \in DOMAIN ms \cup {r.Name} |-> IF n = r.Name THEN r ELSE ms[n]]]

MustGetNil(ms, name) == NilModel

\* reg.models[name]: nil for a missing name, the Instance of its Registration otherwise
MustGet(ms, name) == IF name \notin DOMAIN ms THEN NilModel ELSE ms[name].Instance

Has(ms, name) == name \in DOMAIN ms

\* the orders in which range can visit the keys of S
RECURSIVE Orderings(_)
Orderings(S) ==
    IF S = {} THEN {<<>>}
    ELSE UNION {{<<k>> \o rest : rest \in Orderings(S \ {k})} : k \in S}

\* the slices ListModelNames can return: the keys, in map iteration order
ListModelNames(ms) == Orderings(DOMAIN ms)

UnlockOnReturnOnly(holder, panicked) == IF panicked THEN holder ELSE 0

\* defer reg.Unlock(): runs when the method returns and when it panics
Unlock(holder, panicked) == 0

Goroutines == {1, 2}
\* what a method returned: whether it panicked, and its result by type
NoResult == [panicked |-> FALSE, model |-> NilModel, has |-> FALSE, names |-> <<>>]
IdleCall == [at |-> "idle", op |-> "", name |-> <<>>, inst |-> NilModel, ret |-> NoResult]
LogEntry(r, panicked) == [Name |-> r.Name, Instance |-> r.Instance, panicked |-> panicked]

\* a goroutine calls a method of the register and reaches reg.Lock()
Invoke(gr, Methods, MaxRegisters) ==
    /\ calls[gr].at = "idle"
    /\ \E m \in Methods :
         /\ m.op = "Register" =>
               Len(log) + Cardinality({h \in Goroutines :
                   calls[h].at # "idle" /\ calls[h].op = "Register"}) < MaxRegisters
         /\ calls' = [calls EXCEPT ![gr] =
            [at |-> "waiting", op |-> m.op, name |-> m.name, inst |-> m.inst, ret |-> NoResult]]
    /\ UNCHANGED <<models, mu, log, gm>>
    /\ UNCHANGED <<pc, args, hfToken, g, requests, listing, configDoc, ret>>

LockWithoutWaiting(gr) ==
    /\ calls[gr].at = "waiting"
    /\ mu' = gr
    /\ calls' = [calls EXCEPT ![gr].at = "locked"]
    /\ UNCHANGED <<models, log, gm>>
    /\ UNCHANGED <<pc, args, hfToken, g, requests, listing, configDoc, ret>>

\* reg.Lock() returns
Lock(gr) ==
    /\ calls[gr].at = "waiting"
    /\ mu = 0
    /\ mu' = gr
    /\ calls' = [calls EXCEPT ![gr].at = "locked"]
    /\ UNCHANGED <<models, log, gm>>
    /\ UNCHANGED <<pc, args, hfToken, g, requests, listing, configDoc, ret>>

\* the body of Register under the lock, then the deferred Unlock
RunRegister(gr) ==
    /\ calls[gr].at = "locked" /\ calls[gr].op = "Register"
    /\ mu = gr
    /\ LET r   == Registration(calls[gr].name, calls[gr].inst)
           out == Register(models, r)
       IN  /\ models' = out.models
           /\ log' = Append(log, LogEntry(r, out.panicked))
           /\ mu' = Unlock(mu, out.panicked)
           /\ calls' = [calls EXCEPT ![gr].at = "idle",
                                     ![gr].ret = [NoResult EXCEPT !.panicked = out.panicked]]
    /\ UNCHANGED gm
    /\ UNCHANGED <<pc, args, hfToken, g, requests, listing, configDoc, ret>>

\* the bodies of MustGet, Has and ListModelNames under the lock, then the deferred Unlock
RunRead(gr) ==
    /\ calls[gr].at = "locked" /\ calls[gr].op \in {"MustGet", "Has", "ListModelNames"}
    /\ mu = gr
    /\ \E r \in (IF calls[gr].op = "MustGet"
                 THEN {[NoResult EXCEPT !.model = MustGet(models, calls[gr].name)]}
                 ELSE IF calls[gr].op = "Has"
                 THEN {[NoResult EXCEPT !.has = Has(models, calls[gr].name)]}
                 ELSE {[NoResult EXCEPT !.names = l] : l \in ListModelNames(models)}) :
         calls' = [calls EXCEPT ![gr].at = "idle", ![gr].ret = r]
    /\ mu' = Unlock(mu, FALSE)
    /\ UNCHANGED <<models, log, gm>>
    /\ UNCHANGED <<pc, args, hfToken, g, requests, listing, configDoc, ret>>

\* no GetModelByName call is under way
NoLookup ==
    [at |-> "none", modelName |-> <<>>, secretName |-> "", secretNamespace |-> "",
     kubeClient |-> [isNil |-> TRUE, store |-> [k \in {} |-> [f \in {} |-> ""]]],
     ctxCancelled |-> FALSE, gets |-> <<>>, token |-> "",
     model |-> NilModel, err |-> NoErr, params |-> <<>>, prev |-> <<>>]

\* an untouched register and no caller
RegisterIdle ==
    /\ models = EmptyRegistry
    /\ mu = 0
    /\ calls = [gr \in Goroutines |-> IdleCall]
    /\ log = <<>>
    /\ gm = NoLookup

NoResponse == [netErr |-> FALSE, status |-> 0, body |-> [json |-> "none"]]

InitOver(Repos, Tokens, EnvTokens) ==
    /\ pc = "start"
    /\ args \in [modelRepo : Repos, token : Tokens]
    /\ hfToken \in EnvTokens
    /\ g = NoGenerator
    /\ requests = <<>>
    /\ listing = NoResponse
    /\ configDoc = NoResponse
    /\ ret = [returned |-> FALSE, preset |-> <<>>, err |-> NoErr]
    /\ RegisterIdle

\* no GeneratePreset call is under way
GeneratorIdle ==
    /\ pc = "idle"
    /\ args = [modelRepo |-> <<>>, token |-> ""]
    /\ g = NoGenerator
    /\ requests = <<>>
    /\ listing = NoResponse
    /\ configDoc = NoResponse
    /\ ret = [returned |-> FALSE, preset |-> <<>>, err |-> NoErr]

NextOver(ListResps, ConfigResps) ==
    \/ GeneratePreset
    \/ ListingResponse(ListResps)
    \/ ConfigResponse(ConfigResps)
    \/ ParseModelMetadata
    \/ FinalizeParams

----------------------------------------------------------------------------
(* GetModelByName and the vLLM-compatible model of presets/workspace/models *)

\* builtinVLLMModels: hub id in lower case -> preset name
builtinVLLMModels ==
    (<<"d","e","e","p","s","e","e","k","-","a","i","/","d","e","e","p","s","e","e","k","-","r","1","-","d","i","s","t","i","l","l","-","l","l","a","m","a","-","8","b">> :> <<"d","e","e","p","s","e","e","k","-","r","1","-","d","i","s","t","i","l","l","-","l","l","a","m","a","-","8","b">>)   \* "deepseek-ai/deepseek-r1-distill-llama-8b": "deepseek-r1-distill-llama-8b"
    @@ (<<"d","e","e","p","s","e","e","k","-","a","i","/","d","e","e","p","s","e","e","k","-","r","1","-","d","i","s","t","i","l","l","-","q","w","e","n","-","1","4","b">> :> <<"d","e","e","p","s","e","e","k","-","r","1","-","d","i","s","t","i","l","l","-","q","w","e","n","-","1","4","b">>)   \* "deepseek-ai/deepseek-r1-distill-qwen-14b": "deepseek-r1-distill-qwen-14b"
    @@ (<<"d","e","e","p","s","e","e","k","-","a","i","/","d","e","e","p","s","e","e","k","-","r","1","-","0","5","2","8">> :> <<"d","e","e","p","s","e","e","k","-","r","1","-","0","5","2","8">>)   \* "deepseek-ai/deepseek-r1-0528": "deepseek-r1-0528"
    @@ (<<"d","e","e","p","s","e","e","k","-","a","i","/","d","e","e","p","s","e","e","k","-","v","3","-","0","3","2","4">> :> <<"d","e","e","p","s","e","e","k","-","v","3","-","0","3","2","4">>)   \* "deepseek-ai/deepseek-v3-0324": "deepseek-v3-0324"
    @@ (<<"t","i","i","u","a","e","/","f","a","l","c","o","n","-","7","b">> :> <<"f","a","l","c","o","n","-","7","b">>)   \* "tiiuae/falcon-7b": "falcon-7b"
    @@ (<<"t","i","i","u","a","e","/","f","a","l","c","o","n","-","7","b","-","i","n","s","t","r","u","c","t">> :> <<"f","a","l","c","o","n","-","7","b","-","i","n","s","t","r","u","c","t">>)   \* "tiiuae/falcon-7b-instruct": "falcon-7b-instruct"
    @@ (<<"t","i","i","u","a","e","/","f","a","l","c","o","n","-","4","0","b">> :> <<"f","a","l","c","o","n","-","4","0","b">>)   \* "tiiuae/falcon-40b": "falcon-40b"
    @@ (<<"t","i","i","u","a","e","/","f","a","l","c","o","n","-","4","0","b","-","i","n","s","t","r","u","c","t">> :> <<"f","a","l","c","o","n","-","4","0","b","-","i","n","s","t","r","u","c","t">>)   \* "tiiuae/falcon-40b-instruct": "falcon-40b-instruct"
    @@ (<<"g","o","o","g","l","e","/","g","e","m","m","a","-","3","-","4","b","-","i","t">> :> <<"g","e","m","m","a","-","3","-","4","b","-","i","n","s","t","r","u","c","t">>)   \* "google/gemma-3-4b-it": "gemma-3-4b-instruct"
    @@ (<<"g","o","o","g","l","e","/","g","e","m","m","a","-","3","-","2","7","b","-","i","t">> :> <<"g","e","m","m","a","-","3","-","2","7","b","-","i","n","s","t","r","u","c","t">>)   \* "google/gemma-3-27b-it": "gemma-3-27b-instruct"
    @@ (<<"o","p","e","n","a","i","/","g","p","t","-","o","s","s","-","2","0","b">> :> <<"g","p","t","-","o","s","s","-","2","0","b">>)   \* "openai/gpt-oss-20b": "gpt-oss-20b"
    @@ (<<"o","p","e","n","a","i","/","g","p","t","-","o","s","s","-","1","2","0","b">> :> <<"g","p","t","-","o","s","s","-","1","2","0","b">>)   \* "openai/gpt-oss-120b": "gpt-oss-120b"
    @@ (<<"m","e","t","a","-","l","l","a","m","a","/","l","l","a","m","a","-","3",".","1","-","8","b","-","i","n","s","t","r","u","c","t">> :> <<"l","l","a","m","a","-","3",".","1","-","8","b","-","i","n","s","t","r","u","c","t">>)   \* "meta-llama/llama-3.1-8b-instruct": "llama-3.1-8b-instruct"
    @@ (<<"m","e","t","a","-","l","l","a","m","a","/","l","l","a","m","a","-","3",".","3","-","7","0","b","-","i","n","s","t","r","u","c","t">> :> <<"l","l","a","m","a","-","3",".","3","-","7","0","b","-","i","n","s","t","r","u","c","t">>)   \* "meta-llama/llama-3.3-70b-instruct": "llama-3.3-70b-instruct"
    @@ (<<"m","i","s","t","r","a","l","a","i","/","m","i","s","t","r","a","l","-","7","b","-","v","0",".","3">> :> <<"m","i","s","t","r","a","l","-","7","b">>)   \* "mistralai/mistral-7b-v0.3": "mistral-7b"
    @@ (<<"m","i","s","t","r","a","l","a","i","/","m","i","s","t","r","a","l","-","7","b","-","i","n","s","t","r","u","c","t","-","v","0",".","3">> :> <<"m","i","s","t","r","a","l","-","7","b","-","i","n","s","t","r","u","c","t">>)   \* "mistralai/mistral-7b-instruct-v0.3": "mistral-7b-instruct"
    @@ (<<"m","i","s","t","r","a","l","a","i","/","m","i","n","i","s","t","r","a","l","-","3","-","3","b","-","i","n","s","t","r","u","c","t","-","2","5","1","2">> :> <<"m","i","n","i","s","t","r","a","l","-","3","-","3","b","-","i","n","s","t","r","u","c","t">>)   \* "mistralai/ministral-3-3b-instruct-2512": "ministral-3-3b-instruct"
    @@ (<<"m","i","s","t","r","a","l","a","i","/","m","i","n","i","s","t","r","a","l","-","3","-","8","b","-","i","n","s","t","r","u","c","t","-","2","5","1","2">> :> <<"m","i","n","i","s","t","r","a","l","-","3","-","8","b","-","i","n","s","t","r","u","c","t">>)   \* "mistralai/ministral-3-8b-instruct-2512": "ministral-3-8b-instruct"
    @@ (<<"m","i","s","t","r","a","l","a","i","/","m","i","n","i","s","t","r","a","l","-","3","-","1","4","b","-","i","n","s","t","r","u","c","t","-","2","5","1","2">> :> <<"m","i","n","i","s","t","r","a","l","-","3","-","1","4","b","-","i","n","s","t","r","u","c","t">>)   \* "mistralai/ministral-3-14b-instruct-2512": "ministral-3-14b-instruct"
    @@ (<<"m","i","s","t","r","a","l","a","i","/","m","i","s","t","r","a","l","-","l","a","r","g","e","-","3","-","6","7","5","b","-","i","n","s","t","r","u","c","t","-","2","5","1","2">> :> <<"m","i","s","t","r","a","l","-","l","a","r","g","e","-","3","-","6","7","5","b","-","i","n","s","t","r","u","c","t">>)   \* "mistralai/mistral-large-3-675b-instruct-2512": "mistral-large-3-675b-instruct"
    @@ (<<"m","i","c","r","o","s","o","f","t","/","p","h","i","-","3","-","m","i","n","i","-","4","k","-","i","n","s","t","r","u","c","t">> :> <<"p","h","i","-","3","-","m","i","n","i","-","4","k","-","i","n","s","t","r","u","c","t">>)   \* "microsoft/phi-3-mini-4k-instruct": "phi-3-mini-4k-instruct"
    @@ (<<"m","i","c","r","o","s","o","f","t","/","p","h","i","-","3","-","m","i","n","i","-","1","2","8","k","-","i","n","s","t","r","u","c","t">> :> <<"p","h","i","-","3","-","m","i","n","i","-","1","2","8","k","-","i","n","s","t","r","u","c","t">>)   \* "microsoft/phi-3-mini-128k-instruct": "phi-3-mini-128k-instruct"
    @@ (<<"m","i","c","r","o","s","o","f","t","/","p","h","i","-","3","-","m","e","d","i","u","m","-","4","k","-","i","n","s","t","r","u","c","t">> :> <<"p","h","i","-","3","-","m","e","d","i","u","m","-","4","k","-","i","n","s","t","r","u","c","t">>)   \* "microsoft/phi-3-medium-4k-instruct": "phi-3-medium-4k-instruct"
    @@ (<<"m","i","c","r","o","s","o","f","t","/","p","h","i","-","3","-","m","e","d","i","u","m","-","1","2","8","k","-","i","n","s","t","r","u","c","t">> :> <<"p","h","i","-","3","-","m","e","d","i","u","m","-","1","2","8","k","-","i","n","s","t","r","u","c","t">>)   \* "microsoft/phi-3-medium-128k-instruct": "phi-3-medium-128k-instruct"
    @@ (<<"m","i","c","r","o","s","o","f","t","/","p","h","i","-","3",".","5","-","m","i","n","i","-","i","n","s","t","r","u","c","t">> :> <<"p","h","i","-","3",".","5","-","m","i","n","i","-","i","n","s","t","r","u","c","t">>)   \* "microsoft/phi-3.5-mini-instruct": "phi-3.5-mini-instruct"
    @@ (<<"m","i","c","r","o","s","o","f","t","/","p","h","i","-","4">> :> <<"p","h","i","-","4">>)   \* "microsoft/phi-4": "phi-4"
    @@ (<<"m","i","c","r","o","s","o","f","t","/","p","h","i","-","4","-","m","i","n","i","-","i","n","s","t","r","u","c","t">> :> <<"p","h","i","-","4","-","m","i","n","i","-","i","n","s","t","r","u","c","t">>)   \* "microsoft/phi-4-mini-instruct": "phi-4-mini-instruct"
    @@ (<<"q","w","e","n","/","q","w","e","n","2",".","5","-","c","o","d","e","r","-","7","b","-","i","n","s","t","r","u","c","t">> :> <<"q","w","e","n","2",".","5","-","c","o","d","e","r","-","7","b","-","i","n","s","t","r","u","c","t">>)   \* "qwen/qwen2.5-coder-7b-instruct": "qwen2.5-coder-7b-instruct"
    @@ (<<"q","w","e","n","/","q","w","e","n","2",".","5","-","c","o","d","e","r","-","3","2","b","-","i","n","s","t","r","u","c","t">> :> <<"q","w","e","n","2",".","5","-","c","o","d","e","r","-","3","2","b","-","i","n","s","t","r","u","c","t">>)   \* "qwen/qwen2.5-coder-32b-instruct": "qwen2.5-coder-32b-instruct"

\* vLLMModelArchMap is generated by gen_model_arch_list.sh from vLLM's list of supported
\* models; of its keys, the ones the configs here name (Config_unsupported names none)
vLLMModelArchMap == {"FalconForCausalLM", "Qwen3ForCausalLM"}

\* param.Metadata: the generator's record, with the fields it never sets at their zero value
Metadata(param) ==
    [Name                   |-> param.Name,
     Architectures          |-> param.Architectures,
     Version                |-> param.Version,
     DownloadAuthRequired   |-> param.DownloadAuthRequired,
     ModelFileSize          |-> param.ModelFileSize,
     DiskStorageRequirement |-> param.DiskStorageRequirement,
     BytesPerToken          |-> param.BytesPerToken,
     ModelTokenLimit        |-> param.ModelTokenLimit,
     ReasoningParser        |-> param.ReasoningParser,
     ToolCallParser         |-> param.ToolCallParser,
     DType                  |-> "",
     ChatTemplate           |-> <<>>,
     AllowRemoteFiles       |-> FALSE]

\* &vLLMCompatibleModel{model: metadata}
vLLMCompatibleModel(metadata) == [kind |-> "vllm", model |-> metadata]

\* registerModel for a non-nil param: the instance, and the register after Register
registerModel(ms, hfModelCardID, param) ==
    LET m == vLLMCompatibleModel(Metadata(param))
        r == Registration(hfModelCardID, m)
    IN  [model |-> m, r |-> r, reg |-> Register(ms, r)]

Lit_chat_templates == <<"/","w","o","r","k","s","p","a","c","e","/","c","h","a","t","_","t","e","m","p","l","a","t","e","s","/">>   \* "/workspace/chat_templates/"
NoRunParams == [k \in {} |-> ""]

GetInferenceParametersNoPrefix(m) ==
    LET md == m.model
    IN  [Metadata |-> [Name |-> md.Name, ModelType |-> "text-generation",
                       Version |-> md.Version, Runtime |-> "tfs",
                       DownloadAtRuntime |-> TRUE,
                       DownloadAuthRequired |-> md.DownloadAuthRequired],
         TotalSafeTensorFileSize |-> md.ModelFileSize,
         DiskStorageRequirement  |-> md.DiskStorageRequirement,
         BytesPerToken           |-> md.BytesPerToken,
         ModelTokenLimit         |-> md.ModelTokenLimit,
         VLLM |-> [ModelName |-> md.Name,
                   ModelRunParams |->
                       ("trust-remote-code" :> "")
                       @@ ("dtype" :> IF md.DType # "" THEN md.DType ELSE "bfloat16")
                       @@ (IF md.ToolCallParser # ""
                           THEN ("tool-call-parser" :> md.ToolCallParser)
                                @@ ("enable-auto-tool-choice" :> "")
                           ELSE NoRunParams)
                       @@ (IF md.ChatTemplate # <<>>
                           THEN "chat-template" :> md.ChatTemplate
                           ELSE NoRunParams)
                       @@ (IF md.AllowRemoteFiles THEN "allow-remote-files" :> ""
                           ELSE NoRunParams)
                       @@ (IF md.ReasoningParser # ""
                           THEN "reasoning-parser" :> md.ReasoningParser
                           ELSE NoRunParams)]]

\* vLLMCompatibleModel.GetInferenceParameters
GetInferenceParameters(m) ==
    LET md == m.model
    IN  [Metadata |-> [Name |-> md.Name, ModelType |-> "text-generation",
                       Version |-> md.Version, Runtime |-> "tfs",
                       DownloadAtRuntime |-> TRUE,
                       DownloadAuthRequired |-> md.DownloadAuthRequired],
         TotalSafeTensorFileSize |-> md.ModelFileSize,
         DiskStorageRequirement  |-> md.DiskStorageRequirement,
         BytesPerToken           |-> md.BytesPerToken,
         ModelTokenLimit         |-> md.ModelTokenLimit,
         VLLM |-> [ModelName |-> md.Name,
                   ModelRunParams |->
                       ("trust-remote-code" :> "")
                       @@ ("dtype" :> IF md.DType # "" THEN md.DType ELSE "bfloat16")
                       @@ (IF md.ToolCallParser # ""
                           THEN ("tool-call-parser" :> md.ToolCallParser)
                                @@ ("enable-auto-tool-choice" :> "")
                           ELSE NoRunParams)
                       @@ (IF md.ChatTemplate # <<>>
                           THEN "chat-template" :> (Lit_chat_templates \o md.ChatTemplate)
                           ELSE NoRunParams)
                       @@ (IF md.AllowRemoteFiles THEN "allow-remote-files" :> ""
                           ELSE NoRunParams)
                       @@ (IF md.ReasoningParser # ""
                           THEN "reasoning-parser" :> md.ReasoningParser
                           ELSE NoRunParams)]]

\* a nil client.Client, and a client over a store of secrets: ObjectKey -> Data
NilClient == [isNil |-> TRUE, store |-> [k \in {} |-> NoRunParams]]
Client(store) == [isNil |-> FALSE, store |-> store]
ObjectKey(name, namespace) == [Name |-> name, Namespace |-> namespace]

\* GetHFTokenFromSecret: the outcomes of the call, each with the keys it passed to
\* kubeClient.Get. Get fails for a key the store lacks; with a cancelled context it
\* may fail for any key
GetHFTokenFromSecret(ctxCancelled, kubeClient, secretName, secretNamespace) ==
    IF secretName = "" THEN {[token |-> "", err |-> NoErr, gets |-> <<>>]}
    ELSE IF kubeClient.isNil
    THEN {[token |-> "", err |-> [kind |-> "kubeClient is nil"], gets |-> <<>>]}
    ELSE LET key == ObjectKey(secretName,
                              IF secretNamespace = "" THEN "default" ELSE secretNamespace)
             failed == [token |-> "", err |-> [kind |-> "failed to get secret"],
                        gets |-> <<key>>]
         IN  (IF ctxCancelled \/ key \notin DOMAIN kubeClient.store THEN {failed} ELSE {})
             \cup (IF key \notin DOMAIN kubeClient.store THEN {}
                   ELSE IF "HF_TOKEN" \notin DOMAIN kubeClient.store[key]
                   THEN {[token |-> "", err |-> [kind |-> "HF_TOKEN not found in secret"],
                          gets |-> <<key>>]}
                   ELSE {[token |-> kubeClient.store[key]["HF_TOKEN"], err |-> NoErr,
                          gets |-> <<key>>]})

\* strings.Contains(s, "/")
ContainsSlash(s) == \E i \in 1..Len(s) : s[i] = "/"

\* the call of GetModelByName: its arguments
CallGetModelByName(Names, SecretNames, Namespaces, Clients) ==
    /\ gm.at = "none"
    /\ \E n \in Names, sn \in SecretNames, ns \in Namespaces, c \in Clients,
          cancelled \in BOOLEAN :
         gm' = [gm EXCEPT !.at = "called", !.modelName = n, !.secretName = sn,
                          !.secretNamespace = ns, !.kubeClient = c,
                          !.ctxCancelled = cancelled]
    /\ UNCHANGED <<models, mu, calls, log>>
    /\ UNCHANGED <<pc, args, hfToken, g, requests, listing, configDoc, ret>>

\* return model, err
Return(m, e) == [gm EXCEPT !.at = "returned", !.model = m, !.err = e]

\* GetModelByName up to its first return or to the call of generator.GeneratePreset
GetModelByName ==
    /\ gm.at = "called"
    /\ mu = 0
    /\ LET modelName == ToLower(gm.modelName)
           model     == MustGet(models, modelName)
       IN  IF model # NilModel
           THEN /\ gm' = Return(model, NoErr)
                /\ UNCHANGED <<pc, args>>
           ELSE IF ~ContainsSlash(modelName)
           THEN /\ gm' = Return(NilModel, [kind |-> "model is not registered"])
                /\ UNCHANGED <<pc, args>>
           ELSE IF modelName \in DOMAIN builtinVLLMModels
           THEN /\ gm' = Return(MustGet(models, builtinVLLMModels[modelName]), NoErr)
                /\ UNCHANGED <<pc, args>>
           ELSE \E t \in GetHFTokenFromSecret(gm.ctxCancelled, gm.kubeClient,
                                              gm.secretName, gm.secretNamespace) :
                  /\ gm' = [gm EXCEPT !.at = "generating", !.gets = t.gets,
                                      !.token = t.token]
                  /\ args' = [modelRepo |-> modelName, token |-> t.token]
                  /\ pc' = "start"
    /\ UNCHANGED <<models, mu, calls, log>>
    /\ UNCHANGED <<hfToken, g, requests, listing, configDoc, ret>>

RejectedAndRemembered(e) ==
    /\ gm' = Return(NilModel, e)
    /\ models' = Register(models, Registration(ToLower(gm.modelName), NilModel)).models
    /\ UNCHANGED log

\* return nil, err after generator.GeneratePreset: nothing is registered
Rejected(e) ==
    /\ gm' = Return(NilModel, e)
    /\ UNCHANGED <<models, log>>

\* GetModelByName from the return of generator.GeneratePreset to its own
RegisterGenerated ==
    /\ gm.at = "generating"
    /\ pc = "done"
    /\ mu = 0
    /\ IF ret.err # NoErr
       THEN Rejected(ret.err)
       ELSE LET param == ret.preset[1]
                archs == param.Architectures.items
                out   == registerModel(models, ToLower(gm.modelName), param)
            IN  IF Len(archs) = 0 \/ \E i \in 1..Len(archs) : archs[i] \in vLLMModelArchMap
                THEN /\ gm' = Return(out.model, NoErr)
                     /\ models' = out.reg.models
                     /\ log' = Append(log, LogEntry(out.r, out.reg.panicked))
                ELSE Rejected([kind |-> "unsupported model architecture"])
    /\ UNCHANGED <<mu, calls>>
    /\ UNCHANGED <<pc, args, hfToken, g, requests, listing, configDoc, ret>>

\* the caller calls GetModelByName again with the same arguments; what the earlier
\* call returned, and how many requests had been sent by then, is kept in prev
CallAgain(MaxCallCount) ==
    /\ gm.at = "returned"
    /\ Len(gm.prev) + 1 < MaxCallCount
    /\ gm' = [gm EXCEPT !.at = "called", !.gets = <<>>, !.token = "",
                        !.model = NilModel, !.err = NoErr,
                        !.prev = Append(@, [name |-> ToLower(gm.modelName),
                                            model |-> gm.model, err |-> gm.err,
                                            requests |-> Len(requests)])]
    /\ pc' = "idle"
    /\ args' = [modelRepo |-> <<>>, token |-> ""]
    /\ g' = NoGenerator
    /\ listing' = NoResponse
    /\ configDoc' = NoResponse
    /\ ret' = [returned |-> FALSE, preset |-> <<>>, err |-> NoErr]
    /\ UNCHANGED <<hfToken, requests, models, mu, calls, log>>

\* a package's init() registering its preset
RegisterPreset(Regs, MaxRegisters) ==
    /\ gm.at = "none"
    /\ mu = 0
    /\ Len(log) < MaxRegisters
    /\ \E r \in Regs :
         LET out == Register(models, r)
         IN  /\ models' = out.models
             /\ log' = Append(log, LogEntry(r, out.panicked))
    /\ UNCHANGED <<mu, calls, gm>>
    /\ UNCHANGED <<pc, args, hfToken, g, requests, listing, configDoc, ret>>

\* the caller asks the model it holds for its inference parameters
InferenceParameters ==
    /\ gm.at \in {"returned", "held"}
    /\ gm.model.kind = "vllm"
    /\ gm' = [gm EXCEPT !.at = "asked", !.params = <<GetInferenceParameters(gm.model)>>]
    /\ UNCHANGED <<models, mu, calls, log>>
    /\ UNCHANGED <<pc, args, hfToken, g, requests, listing, configDoc, ret>>

----------------------------------------------------------------------------
(* GetModelByName called from several goroutines at once *)

\* the frame of one goroutine's GetModelByName call; gm maps each goroutine to its
\* frame. n counts the goroutine's calls; settled tells that, when the call began,
\* the name was registered and no other call was under way
NoFrame ==
    [at |-> "none", modelName |-> <<>>, model |-> NilModel, err |-> NoErr,
     n |-> 0, settled |-> FALSE]
Waiting(op, name, inst) ==
    [at |-> "waiting", op |-> op, name |-> name, inst |-> inst, ret |-> NoResult]

\* return model, err from the frame of gr
ReturnFrom(gr, m, e) == [gm EXCEPT ![gr].at = "returned", ![gr].model = m, ![gr].err = e]

\* a goroutine calls GetModelByName and reaches the lock of MustGet
ConcurrentCall(gr, Names, MaxCallCount) ==
    /\ gm[gr].at \in {"none", "returned"}
    /\ gm[gr].n < MaxCallCount
    /\ calls[gr].at = "idle"
    /\ \E name \in Names :
         LET modelName == ToLower(name)
         IN  /\ gm' = [gm EXCEPT ![gr] =
                    [at |-> "lookup", modelName |-> modelName, model |-> NilModel,
                     err |-> NoErr, n |-> gm[gr].n + 1,
                     settled |-> /\ Has(models, modelName)
                                 /\ \A h \in Goroutines \ {gr} :
                                       gm[h].at \in {"none", "returned"}]]
             /\ calls' = [calls EXCEPT ![gr] = Waiting("MustGet", modelName, NilModel)]
    /\ UNCHANGED <<models, mu, log>>
    /\ UNCHANGED <<pc, args, hfToken, g, requests, listing, configDoc, ret>>

\* MustGet has returned to the goroutine: the fast path, the rejection of a plain
\* name, the second MustGet of a built-in alias, or the way on to GeneratePreset
AfterMustGet(gr) ==
    /\ gm[gr].at \in {"lookup", "builtin"}
    /\ calls[gr].at = "idle"
    /\ LET modelName == gm[gr].modelName
           model     == calls[gr].ret.model
       IN  IF gm[gr].at = "builtin"
           THEN /\ gm' = ReturnFrom(gr, model, NoErr)
                /\ UNCHANGED calls
           ELSE IF model # NilModel
           THEN /\ gm' = ReturnFrom(gr, model, NoErr)
                /\ UNCHANGED calls
           ELSE IF ~ContainsSlash(modelName)
           THEN /\ gm' = ReturnFrom(gr, NilModel, [kind |-> "model is not registered"])
                /\ UNCHANGED calls
           ELSE IF modelName \in DOMAIN builtinVLLMModels
           THEN /\ gm' = [gm EXCEPT ![gr].at = "builtin"]
                /\ calls' = [calls EXCEPT ![gr] =
                                Waiting("MustGet", builtinVLLMModels[modelName], NilModel)]
           ELSE /\ gm' = [gm EXCEPT ![gr].at = "ready"]
                /\ UNCHANGED calls
    /\ UNCHANGED <<models, mu, log>>
    /\ UNCHANGED <<pc, args, hfToken, g, requests, listing, configDoc, ret>>

\* the goroutine reads the token (no secret is named) and calls
\* generator.GeneratePreset. A generation shares nothing with the other goroutine,
\* so the generations are run one after the other
CallGeneratePreset(gr) ==
    /\ gm[gr].at = "ready"
    /\ pc = "idle"
    /\ \E t \in GetHFTokenFromSecret(FALSE, NilClient, "", "") :
         args' = [modelRepo |-> gm[gr].modelName, token |-> t.token]
    /\ pc' = "start"
    /\ gm' = [gm EXCEPT ![gr].at = "generating"]
    /\ UNCHANGED <<models, mu, calls, log>>
    /\ UNCHANGED <<hfToken, g, requests, listing, configDoc, ret>>

\* generator.GeneratePreset has returned to the goroutine: the error, the
\* architecture check, and registerModel up to the lock of Register
AfterGeneratePreset(gr) ==
    /\ gm[gr].at = "generating"
    /\ pc = "done"
    /\ IF ret.err # NoErr
       THEN /\ gm' = ReturnFrom(gr, NilModel, ret.err)
            /\ UNCHANGED calls
       ELSE LET param == ret.preset[1]
                archs == param.Architectures.items
                m     == vLLMCompatibleModel(Metadata(param))
            IN  IF Len(archs) = 0 \/ \E i \in 1..Len(archs) : archs[i] \in vLLMModelArchMap
                THEN /\ gm' = [gm EXCEPT ![gr].at = "registering", ![gr].model = m]
                     /\ calls' = [calls EXCEPT ![gr] =
                                     Waiting("Register", gm[gr].modelName, m)]
                ELSE /\ gm' = ReturnFrom(gr, NilModel,
                                         [kind |-> "unsupported model architecture"])
                     /\ UNCHANGED calls
    /\ pc' = "idle"
    /\ args' = [modelRepo |-> <<>>, token |-> ""]
    /\ g' = NoGenerator
    /\ listing' = NoResponse
    /\ configDoc' = NoResponse
    /\ ret' = [returned |-> FALSE, preset |-> <<>>, err |-> NoErr]
    /\ UNCHANGED <<hfToken, requests, models, mu, log>>

\* Register has returned to registerModel, which returns the model it built
AfterRegister(gr) ==
    /\ gm[gr].at = "registering"
    /\ calls[gr].at = "idle"
    /\ gm' = ReturnFrom(gr, gm[gr].model, NoErr)
    /\ UNCHANGED <<models, mu, calls, log>>
    /\ UNCHANGED <<pc, args, hfToken, g, requests, listing, configDoc, ret>>

----------------------------------------------------------------------------
(* Inputs: what the caller passes and what the hub answers *)

MaxFiles == 3      \* files in an enumerated listing
MaxGi == 8         \* whole GiB in an enumerated file size
MaxHeads == 2      \* attention and KV head counts run up to this
MaxLayers == 1     \* layer counts run from -1 up to this

Path_model_safetensors == <<"m","o","d","e","l",".","s","a","f","e","t","e","n","s","o","r","s">>   \* "model.safetensors"
Path_model_bin == <<"m","o","d","e","l",".","b","i","n">>   \* "model.bin"
Path_consolidated == <<"c","o","n","s","o","l","i","d","a","t","e","d",".","s","a","f","e","t","e","n","s","o","r","s">>   \* "consolidated.safetensors"
Path_consolidated_index == <<"c","o","n","s","o","l","i","d","a","t","e","d",".","s","a","f","e","t","e","n","s","o","r","s",".","i","n","d","e","x",".","j","s","o","n">>   \* "consolidated.safetensors.index.json"
Path_model_index == <<"m","o","d","e","l",".","s","a","f","e","t","e","n","s","o","r","s",".","i","n","d","e","x",".","j","s","o","n">>   \* "model.safetensors.index.json"
Path_readme == <<"R","E","A","D","M","E",".","m","d">>   \* "README.md"
Repo_falcon == <<"t","i","i","u","a","e","/","f","a","l","c","o","n","-","7","b","-","i","n","s","t","r","u","c","t">>   \* "tiiuae/falcon-7b-instruct"
Repo_ministral == <<"m","i","s","t","r","a","l","a","i","/","M","i","n","i","s","t","r","a","l","-","3","-","8","B","-","I","n","s","t","r","u","c","t","-","2","5","1","2">>   \* "mistralai/Ministral-3-8B-Instruct-2512"
Repo_mistral_large == <<"m","i","s","t","r","a","l","a","i","/","M","i","s","t","r","a","l","-","L","a","r","g","e","-","3","-","6","7","5","B","-","I","n","s","t","r","u","c","t","-","2","5","1","2">>   \* "mistralai/Mistral-Large-3-675B-Instruct-2512"
Repo_qwen3_coder == <<"Q","w","e","n","/","Q","w","e","n","3","-","C","o","d","e","r","-","3","0","B","-","A","3","B","-","I","n","s","t","r","u","c","t">>   \* "Qwen/Qwen3-Coder-30B-A3B-Instruct"
Repo_qwen3_8b == <<"Q","w","e","n","/","Q","w","e","n","3","-","8","B">>   \* "Qwen/Qwen3-8B"
Repo_deepseek_v31 == <<"d","e","e","p","s","e","e","k","-","a","i","/","D","e","e","p","S","e","e","k","-","V","3",".","1">>   \* "deepseek-ai/DeepSeek-V3.1"
Repo_deepseek_v3 == <<"d","e","e","p","s","e","e","k","-","a","i","/","D","e","e","p","S","e","e","k","-","V","3">>   \* "deepseek-ai/DeepSeek-V3"
Name_qwen3_coder == <<"q","w","e","n","3","-","c","o","d","e","r","-","3","0","b","-","a","3","b","-","i","n","s","t","r","u","c","t">>   \* "qwen3-coder-30b-a3b-instruct"
Name_deepseek_v31 == <<"d","e","e","p","s","e","e","k","-","v","3",".","1">>   \* "deepseek-v3.1"

File(path, size) == [Path |-> path, Size |-> size, Type |-> "file"]
Bytes(q, r) == [gi |-> q, b |-> r]

NetError    == [netErr |-> TRUE, status |-> 0, body |-> [json |-> "none"]]
Status(n)   == [netErr |-> FALSE, status |-> n, body |-> [json |-> "none"]]
Malformed   == [netErr |-> FALSE, status |-> 200, body |-> [json |-> "malformed"]]
OkNull      == [netErr |-> FALSE, status |-> 200, body |-> [json |-> "null"]]
OkList(fs)  == [netErr |-> FALSE, status |-> 200, body |-> [json |-> "array", files |-> fs]]
OkConfig(c) == [netErr |-> FALSE, status |-> 200, body |-> [json |-> "object", config |-> c]]

Failures == {NetError, Status(401), Status(403), Status(404), Status(204), Malformed}

\* the configs of the repositories the tests name, and the empty object
Config_gqa ==
    ("hidden_size" :> Num(4096)) @@ ("num_attention_heads" :> Num(32))
    @@ ("num_key_value_heads" :> Num(8)) @@ ("num_hidden_layers" :> Num(32))
Config_falcon ==
    ("hidden_size" :> Num(4544)) @@ ("n_head" :> Num(71)) @@ ("n_layer" :> Num(32))
    @@ ("multi_query" :> Bool(TRUE)) @@ ("architectures" :> Arr(<<Str("FalconForCausalLM")>>))
Config_deepseek ==
    ("hidden_size" :> Num(7168)) @@ ("num_attention_heads" :> Num(128))
    @@ ("num_key_value_heads" :> Num(128)) @@ ("num_hidden_layers" :> Num(61))
    @@ ("kv_lora_rank" :> Num(512)) @@ ("qk_rope_head_dim" :> Num(64))
    @@ ("max_position_embeddings" :> Num(163840))
ExampleConfigs == {EmptyConfig, Config_gqa, Config_falcon, Config_deepseek}

Paths == {Path_model_safetensors, Path_model_bin, Path_consolidated,
          Path_consolidated_index, Path_model_index, Path_readme}
SmallSizes == {Bytes(0, 1), Bytes(1, 0)}

\* the listings of exactly n files with distinct paths
RECURSIVE ListingsOfLen(_)
ListingsOfLen(n) ==
    IF n = 0 THEN {<<>>}
    ELSE UNION {{Append(l, File(p, sz)) :
                    p \in {q \in Paths : \A i \in 1..Len(l) : l[i].Path # q}, sz \in SmallSizes} :
                l \in ListingsOfLen(n - 1)}

EdgeSizes ==
    {Bytes(q, r) : q \in 0..MaxGi, r \in {0, 1, GiB - 1}}
    \cup {Bytes(Float64Exact - 1, GiB - 1), Bytes(Float64Exact, 0), Bytes(Float64Exact, 1),
          Bytes(Float64Exact, 3)}

Listings ==
    UNION {ListingsOfLen(n) : n \in 0..MaxFiles}
    \cup {<<File(Path_model_safetensors, sz)>> : sz \in EdgeSizes}
    \cup {<<File(Path_consolidated, sz), File(Path_model_bin, Bytes(0, 1))>> : sz \in EdgeSizes}
    \cup {<<File(Path_consolidated_index, Bytes(0, 1)), File(Path_model_safetensors, sz),
            File(Path_model_bin, Bytes(1, 0))>> : sz \in EdgeSizes}

OneWeightFile == <<File(Path_model_safetensors, Bytes(1, 0))>>

Opt(key, vals) == {EmptyConfig} \cup {key :> v : v \in vals}

LayerOpts ==
    Opt("num_hidden_layers", {Num(n) : n \in (-1)..MaxLayers} \cup {Null})
KvLoraOpts ==
    Opt("kv_lora_rank", {Num(-2), Num(-1), Num(0), Num(4), Half(-3), Half(9), Null,
                         Str(<<"4">>), Str(<<"-","1">>)})

\* context-length fields of every JSON type, under the first, second and last key
LimitConfigs ==
    {m @@ n @@ x :
        m \in Opt("max_position_embeddings",
                  {Num(4096), Num(0), Half(9), Half(-3), Null, Bool(TRUE), Arr(<<>>),
                   Str(<<"8","1","9","2">>), Str(<<"-","1">>), Str(<<"4",".","0">>),
                   Str(<<>>)}),
        n \in Opt("n_ctx", {Num(1024), Null}),
        x \in Opt("max_sequence_length", {Num(512)})}

KVConfigs ==
    {a @@ k @@ h @@ d @@ l @@ r @@ q @@ m :
        a \in Opt("num_attention_heads", {Num(n) : n \in (-1)..MaxHeads}),
        k \in Opt("num_key_value_heads", {Num(n) : n \in 0..MaxHeads}),
        h \in Opt("hidden_size", {Num(0), Num(5), Num(8)}),
        d \in Opt("head_dim", {Num(0), Num(3)}),
        l \in LayerOpts,
        r \in KvLoraOpts,
        q \in Opt("qk_rope_head_dim", {Num(1)}),
        m \in Opt("multi_query", {Bool(TRUE), Bool(FALSE)})}
    \cup {("n_layer" :> Num(3)) @@ c : c \in ExampleConfigs}
    \cup {("num_hidden_layers" :> Null) @@ ("n_layers" :> Num(3)) @@ c : c \in ExampleConfigs}
    \cup {("torch_dtype" :> Str(<<"float32">>)) @@ c : c \in ExampleConfigs}
    \cup ExampleConfigs
    \cup LimitConfigs

\* an "architectures" field of every shape: empty, strings, mixed, not an array
ArchConfigs ==
    {"architectures" :> v :
        v \in {Arr(<<>>), Arr(<<Str("LlamaForCausalLM"), Str("FalconForCausalLM")>>),
               Arr(<<Num(1), Str("LlamaForCausalLM"), Null>>), Arr(<<Null>>),
               Str("LlamaForCausalLM"), Null}}

TableNames == DOMAIN toolCallParserMap \cup DOMAIN reasoningParserMap
NameRepos ==
    {Repo_falcon, Repo_ministral, Repo_mistral_large, Repo_qwen3_coder, Repo_qwen3_8b,
     Repo_deepseek_v31, Repo_deepseek_v3}
    \cup TableNames
    \cup {<<"O","r","g","/">> \o k \o <<"-","7","B">> : k \in TableNames}

----------------------------------------------------------------------------
(* Specifications *)

\* every caller input and every hub answer, over a few listings and configs
Init ==
    InitOver({<<>>, Repo_falcon, Repo_mistral_large}, {"", "hf_arg"}, {"", "hf_env"})
Next ==
    NextOver(Failures \cup {OkNull} \cup {OkList(l) : l \in UNION {ListingsOfLen(n) : n \in 0..1}}
                      \cup {OkList(<<File(Path_model_safetensors, Bytes(1, 0)),
                                     File(Path_model_bin, Bytes(1, 0))>>)},
             Failures \cup {OkNull} \cup {OkConfig(c) : c \in ExampleConfigs})
Spec == Init /\ [][Next]_vars

\* every listing, one repository and one config
InitFiles == InitOver({Repo_falcon}, {""}, {""})
NextFiles ==
    NextOver({OkList(l) : l \in Listings}, {OkConfig(Config_gqa)})
SpecFiles == InitFiles /\ [][NextFiles]_vars

\* every config, one repository and one listing
InitKV == InitOver({Repo_falcon}, {""}, {""})
NextKV ==
    NextOver({OkList(OneWeightFile)}, {OkNull} \cup {OkConfig(c) : c \in KVConfigs})
SpecKV == InitKV /\ [][NextKV]_vars

\* every model name, one listing and one config
InitNames == InitOver(NameRepos, {""}, {""})
NextNames ==
    NextOver({OkList(OneWeightFile)}, {OkConfig(c) : c \in {Config_gqa} \cup ArchConfigs})
SpecNames == InitNames /\ [][NextNames]_vars

\* two goroutines calling the register's methods in any interleaving
MaxLog == 2        \* Register calls in a run
Name_a == <<"a">>
Name_b == <<"b">>
Method(op, name, inst) == [op |-> op, name |-> name, inst |-> inst]
RegisterMethods ==
    {Method("Register", <<>>, MockModel(1)), Method("Register", Name_a, MockModel(1)),
     Method("Register", Name_a, MockModel(2)), Method("Register", Name_b, MockModel(1)),
     Method("MustGet", Name_a, NilModel), Method("MustGet", Name_b, NilModel),
     Method("Has", Name_a, NilModel), Method("Has", Name_b, NilModel),
     Method("ListModelNames", <<>>, NilModel)}

InitRegister ==
    /\ GeneratorIdle
    /\ hfToken = ""
    /\ RegisterIdle
NextRegister ==
    \/ \E gr \in Goroutines : Invoke(gr, RegisterMethods, MaxLog)
    \/ \E gr \in Goroutines : Lock(gr)
    \/ \E gr \in Goroutines : RunRegister(gr)
    \/ \E gr \in Goroutines : RunRead(gr)
SpecRegister == InitRegister /\ [][NextRegister]_vars

\* the same with the scheduling Go gives: a goroutine that can run does run, and a
\* goroutine waiting in Lock gets the mutex if it is free again and again
SpecRegisterFair ==
    /\ SpecRegister
    /\ \A gr \in Goroutines :
          /\ SF_vars(Lock(gr))
          /\ WF_vars(RunRegister(gr))
          /\ WF_vars(RunRead(gr))


\* model names, registrations, secrets and hub answers for GetModelByName
MaxPresets == 2    \* presets registered before the call
MaxCalls == 2      \* GetModelByName calls in a run
Name_FALCON == <<"F","A","L","C","O","N","-","7","B","-","I","N","S","T","R","U","C","T">>   \* "FALCON-7B-INSTRUCT"
Name_template == <<"t","e","m","p","l","a","t","e",".","j","i","n","j","a">>   \* "template.jinja"

\* the metadata a preset can carry, over the fields GetInferenceParameters branches on
Metadatas ==
    {[Name |-> Name_a, Architectures |-> NilSlice, Version |-> <<HuggingFaceWebsite>>,
      DownloadAuthRequired |-> auth, ModelFileSize |-> <<"0">> \o Lit_Gi,
      DiskStorageRequirement |-> <<"0">> \o Lit_Gi, BytesPerToken |-> 0,
      ModelTokenLimit |-> 0, ReasoningParser |-> rp, ToolCallParser |-> tcp,
      DType |-> dt, ChatTemplate |-> ct, AllowRemoteFiles |-> arf] :
        auth \in BOOLEAN, rp \in {"", "deepseek_r1"}, tcp \in {"", "hermes"},
        dt \in {"", "float16"}, ct \in {<<>>, Name_template}, arf \in BOOLEAN}

ModelNames ==
    {<<>>, Name_a, LastPart(Repo_falcon), Name_FALCON, Repo_falcon, Repo_qwen3_8b}
ModelRegs ==
    {Registration(n, MockModel(1)) : n \in {LastPart(Repo_falcon), ToLower(Repo_qwen3_8b)}}
    \cup {Registration(ToLower(Repo_qwen3_8b), vLLMCompatibleModel(md)) :
              md \in {m \in Metadatas : m.ChatTemplate # <<>> /\ m.DType = ""
                                        /\ m.AllowRemoteFiles /\ m.ToolCallParser # ""
                                        /\ m.ReasoningParser = ""
                                        /\ ~m.DownloadAuthRequired}}
Clients ==
    {NilClient, Client([k \in {} |-> NoRunParams]),
     Client(ObjectKey("hf-secret", "default") :> ("HF_TOKEN" :> "hf_secret")),
     Client(ObjectKey("hf-secret", "default") :> ("username" :> "kaito"))}
Config_qwen3 == "architectures" :> Arr(<<Str("Qwen3ForCausalLM")>>)
Config_unsupported == "architectures" :> Arr(<<Str("NoSuchArchitecture")>>)

InitModels ==
    /\ GeneratorIdle
    /\ hfToken = ""
    /\ RegisterIdle
NextModels ==
    \/ RegisterPreset(ModelRegs, MaxPresets)
    \/ CallGetModelByName(ModelNames, {"", "hf-secret"}, {"", "kaito"}, Clients)
    \/ GetModelByName
    \/ NextOver({NetError, Status(401), OkList(OneWeightFile),
                 OkList(<<File(Path_consolidated, Bytes(1, 0))>>)},
                {Status(404), OkConfig(EmptyConfig), OkConfig(Config_qwen3),
                 OkConfig(Config_unsupported)})
    \/ RegisterGenerated
    \/ CallAgain(MaxCalls)
    \/ InferenceParameters
\* GetModelByName over a register that packages have filled, then GetInferenceParameters
SpecModels == InitModels /\ [][NextModels]_vars

InitParams ==
    /\ GeneratorIdle
    /\ hfToken = ""
    /\ models = EmptyRegistry
    /\ mu = 0
    /\ calls = [gr \in Goroutines |-> IdleCall]
    /\ log = <<>>
    /\ gm \in {[NoLookup EXCEPT !.at = "held", !.model = vLLMCompatibleModel(md)] :
                 md \in Metadatas}
NextParams == InferenceParameters
\* GetInferenceParameters on a vLLMCompatibleModel built over each metadata
SpecParams == InitParams /\ [][NextParams]_vars

\* two goroutines calling GetModelByName for one unregistered hub name, each up to
\* MaxCalls times, over hub answers that fail, are refused, or yield differing presets
InitConcurrent ==
    /\ GeneratorIdle
    /\ hfToken = ""
    /\ models = EmptyRegistry
    /\ mu = 0
    /\ calls = [gr \in Goroutines |-> IdleCall]
    /\ log = <<>>
    /\ gm = [gr \in Goroutines |-> NoFrame]
NextConcurrent ==
    \/ \E gr \in Goroutines : ConcurrentCall(gr, {Repo_qwen3_8b}, MaxCalls)
    \/ \E gr \in Goroutines : Lock(gr)
    \/ \E gr \in Goroutines : RunRead(gr)
    \/ \E gr \in Goroutines : AfterMustGet(gr)
    \/ \E gr \in Goroutines : CallGeneratePreset(gr)
    \/ NextOver({NetError, OkList(OneWeightFile),
                 OkList(<<File(Path_model_safetensors, Bytes(2, 0))>>)},
                {OkConfig(Config_qwen3), OkConfig(Config_unsupported)})
    \/ \E gr \in Goroutines : AfterGeneratePreset(gr)
    \/ \E gr \in Goroutines : RunRegister(gr)
    \/ \E gr \in Goroutines : AfterRegister(gr)
SpecConcurrent == InitConcurrent /\ [][NextConcurrent]_vars

----------------------------------------------------------------------------
(* What the claims speak of *)

Succeeded == pc = "done" /\ ret.err = NoErr
Preset == ret.preset[1]
Classified == Len(requests) = 2
Files == listing.body.files
Sizes(n) == FormatInt(n) \o Lit_Gi

EndsInSafetensors(f) == HasSuffix(f.Path, Lit_safetensors)
EndsInBin(f) == HasSuffix(f.Path, Lit_bin)

\* the name pattern consolidated*.safetensors
VendorConsolidated(f) ==
    HasPrefix(LastPart(f.Path), Lit_consolidated) /\ HasSuffix(f.Path, Lit_safetensors)

\* ceil(T / 2^30) in exact arithmetic
ExactCeilGiB(t) == IF t.b > 0 THEN t.gi + 1 ELSE t.gi

\* C1, as stated: a listing that holds no file named consolidated*.safetensors, a path
\* ending in .safetensors and a path ending in .bin gets its ModelFileSize from the sizes
\* of the paths ending in .safetensors, and from no other file.
C1_SafetensorsOnly ==
    (/\ Classified
     /\ \A i \in 1..Len(Files) : ~VendorConsolidated(Files[i])
     /\ \E i \in 1..Len(Files) : EndsInSafetensors(Files[i])
     /\ \E i \in 1..Len(Files) : EndsInBin(Files[i]))
    => /\ g.Param.ModelFileSize =
              FormatModelFileSize(SumSizes(SelectSeq(Files, EndsInSafetensors)))
       /\ Succeeded => Preset.ModelFileSize = g.Param.ModelFileSize

\* C2, as stated: a listing that holds a file named consolidated*.safetensors is
\* classified mistral, its config document is params.json, and exactly those files
\* are summed into ModelFileSize.
C2_VendorFilesOnly ==
    (Classified /\ \E i \in 1..Len(Files) : VendorConsolidated(Files[i]))
    => /\ g.LoadFormat = "mistral" /\ g.ConfigFormat = "mistral" /\ g.TokenizerMode = "mistral"
       /\ requests[2].url = ConfigURL(g.ModelRepo, "params.json")
       /\ g.Param.ModelFileSize =
              FormatModelFileSize(SumSizes(SelectSeq(Files, VendorConsolidated)))

\* C3, as stated: with the selected files summing to T bytes, ModelFileSize is "<N>Gi"
\* for N = ceil(T / 2^30) and DiskStorageRequirement is "<N+50>Gi".
C3_CeilGiB ==
    Succeeded =>
        LET t == SumSizes(Classify(Files).selected)
        IN  /\ Preset.ModelFileSize = Sizes(ExactCeilGiB(t))
            /\ Preset.DiskStorageRequirement = Sizes(ExactCeilGiB(t) + 50)

----------------------------------------------------------------------------

Config == g.ModelConfig
HasKey(k) == k \in DOMAIN Config
\* the integer a field holds, 0 when it holds none
Field(k) == getInt(Config, <<k>>, 0)
HasInt(k) == HasKey(k) /\ Coerce(Config[k]).ok

AttentionHeadsOf == getInt(Config, AttentionKeys, 0)
KVHeadsOf ==
    FallbackKVHeads(getInt(Config, KVHeadsKeys, 0), AttentionHeadsOf, Config)
HeadDimOf ==
    DeriveHeadDim(Field("head_dim"), getInt(Config, HiddenSizeKeys, 0), AttentionHeadsOf)
HeadsUsable == AttentionHeadsOf > 0 /\ KVHeadsOf > 0 /\ HeadDimOf > 0
LayersRead == getInt(Config, HiddenLayersKeys, 0)

\* the first of the three layer keys that the config holds
FirstLayerKey ==
    IF HasKey("num_hidden_layers") THEN "num_hidden_layers"
    ELSE IF HasKey("n_layer") THEN "n_layer"
    ELSE IF HasKey("n_layers") THEN "n_layers"
    ELSE ""
LayersOf == IF FirstLayerKey = "" THEN 0 ELSE Field(FirstLayerKey)
LayersStated == FirstLayerKey = "" \/ HasInt(FirstLayerKey)

\* elementsPerToken as sections 4.4.3 to 4.4.5 give it
ElementsOf ==
    IF getInt(Config, <<"kv_lora_rank">>, NoKvLoraRank) # NoKvLoraRank
    THEN Field("kv_lora_rank") + Field("qk_rope_head_dim")
    ELSE IF HeadsUsable THEN 2 * KVHeadsOf * HeadDimOf
    ELSE 0

\* C4, as stated: a config that holds a kv_lora_rank field (here: any whole number) is
\* classified MLA.
C4_AnyKvLoraRank ==
    (/\ Succeeded
     /\ HasKey("kv_lora_rank")
     /\ Config["kv_lora_rank"].t = "float64"
     /\ Config["kv_lora_rank"].h % 2 = 0)
    => Preset.AttnType = "MLA"

\* C4, amended: a config whose kv_lora_rank field reads as an integer other than -1 (a
\* number, truncated toward zero, or a decimal string) is classified MLA with
\* elementsPerToken = kv_lora_rank + qk_rope_head_dim, whatever the head fields hold;
\* kv_lora_rank=512, qk_rope_head_dim=64 and 61 layers give 70272 bytes per token.
C4_KvLoraRankWins ==
    /\ (Succeeded /\ HasInt("kv_lora_rank") /\ Field("kv_lora_rank") # NoKvLoraRank)
       => /\ Preset.AttnType = "MLA"
          /\ Preset.BytesPerToken =
                 (Field("kv_lora_rank") + Field("qk_rope_head_dim")) * LayersRead * 2
    /\ (Succeeded /\ Config = Config_deepseek)
       => Preset.AttnType = "MLA" /\ Preset.BytesPerToken = 70272

C4_Witness ==
    /\ Succeeded
    /\ Config = Config_deepseek
    /\ HeadsUsable
    /\ Preset.BytesPerToken = 70272

\* C5: without a kv_lora_rank field and with attentionHeads, kvHeads and headDim all
\* positive, elementsPerToken is 2 * kvHeads * headDim and the type is MHA when
\* attentionHeads = kvHeads, else MQA when kvHeads = 1, else GQA.
C5_HeadCounting ==
    (Succeeded /\ ~HasKey("kv_lora_rank") /\ HeadsUsable)
    => /\ Preset.AttnType =
              (IF AttentionHeadsOf = KVHeadsOf THEN "MHA"
               ELSE IF KVHeadsOf = 1 THEN "MQA" ELSE "GQA")
       /\ Preset.BytesPerToken = (2 * KVHeadsOf * HeadDimOf) * LayersRead * 2
       /\ (AttentionHeadsOf = 1 /\ KVHeadsOf = 1) => Preset.AttnType = "MHA"

C5_Witness ==
    /\ Succeeded
    /\ ~HasKey("kv_lora_rank")
    /\ AttentionHeadsOf = 1 /\ KVHeadsOf = 1 /\ HeadDimOf > 0
    /\ Field("num_hidden_layers") = 1
    /\ Preset.AttnType = "MHA"
    /\ Preset.BytesPerToken > 0

\* C6: BytesPerToken = elementsPerToken * hiddenLayers * 2, with hiddenLayers the integer
\* of the first layer key the config holds (0 when it holds none; nothing is said of a
\* config whose first layer key holds no integer) and no dtype field changing the
\* factor; hidden_size=4096, 32 heads, 8 KV heads and 32 layers give GQA and 131072.
C6_BytesPerToken ==
    /\ (Succeeded /\ LayersStated) => Preset.BytesPerToken = ElementsOf * LayersOf * 2
    /\ (Succeeded /\ Config \in {Config_gqa, ("torch_dtype" :> Str(<<"float32">>)) @@ Config_gqa})
       => /\ HeadDimOf = 128
          /\ Preset.AttnType = "GQA"
          /\ Preset.BytesPerToken = 131072

C6_Witness ==
    /\ Succeeded
    /\ Config = ("torch_dtype" :> Str(<<"float32">>)) @@ Config_gqa
    /\ Preset.BytesPerToken = 131072

\* C7, as stated: the BytesPerToken of a generated preset is never negative.
C7_NonNegative == Succeeded => Preset.BytesPerToken >= 0

\* C8: a config without a kv_lora_rank field that does not give positive
\* attentionHeads, kvHeads and headDim still yields a preset, with AttnType Unknown and
\* BytesPerToken 0; AttnType is always one of the five names.
C8_Unknown ==
    /\ (pc = "done" /\ configDoc.status = 200 /\ configDoc.body.json \in {"object", "null"})
       => Succeeded
    /\ (Succeeded /\ ~HasKey("kv_lora_rank") /\ ~HeadsUsable)
       => Preset.AttnType = "Unknown" /\ Preset.BytesPerToken = 0
    /\ Succeeded => Preset.AttnType \in {"MHA", "MQA", "GQA", "MLA", "Unknown"}

C8_Witness ==
    /\ Succeeded
    /\ configDoc = OkConfig(EmptyConfig)
    /\ Preset.AttnType = "Unknown"
    /\ Preset.BytesPerToken = 0

----------------------------------------------------------------------------

MatchingToolKeys == {p \in DOMAIN toolCallParserMap : HasPrefix(g.Param.Name, p)}

\* C9: when several keys of toolCallParserMap are prefixes of the lowercased name,
\* ToolCallParser is the value of the one that sorts last; qwen3-coder-30b-a3b-instruct
\* gets qwen3_xml and deepseek-v3.1 gets deepseek_v31.
C9_LaterPrefixWins ==
    Succeeded =>
        /\ \A p \in MatchingToolKeys :
              (\A q \in MatchingToolKeys : q = p \/ StrLess(q, p))
              => Preset.ToolCallParser = toolCallParserMap[p]
        /\ Preset.Name = Name_qwen3_coder => Preset.ToolCallParser = "qwen3_xml"
        /\ Preset.Name = Name_deepseek_v31 => Preset.ToolCallParser = "deepseek_v31"

C9_Witness ==
    /\ Succeeded
    /\ args.modelRepo = Repo_qwen3_coder
    /\ Cardinality(MatchingToolKeys) = 2
    /\ Preset.ToolCallParser = "qwen3_xml"

\* C10: GeneratePreset("", token) returns no preset and an error, creates no Generator
\* and issues no HTTP request.
C10_EmptyRepo ==
    args.modelRepo = <<>> =>
        /\ g = NoGenerator
        /\ requests = <<>>
        /\ pc \in {"start", "done"}
        /\ pc = "done" => (ret.returned /\ ret.preset = <<>> /\ ret.err # NoErr)

C10_Witness ==
    /\ pc = "done"
    /\ args.modelRepo = <<>>
    /\ args.token = "hf_arg"
    /\ ret.err = [kind |-> "model repo is required"]

----------------------------------------------------------------------------

\* the fetch that ended the call, when it ended in a fetch
LastRequest == requests[Len(requests)]
LastResponse == IF Len(requests) = 2 THEN configDoc ELSE listing
ListingStageErrors ==
    {"error listing files", "error parsing file list", "no .safetensors or .bin files found"}
ConfigStageErrors == {"error fetching config", "error parsing config"}

\* C11: GeneratePreset returns either a preset and no error or no preset and an error,
\* whichever of the listing fetch, listing parse, classification, config fetch and
\* config parse fails; nothing is returned before the call ends.
C11_AllOrNothing ==
    /\ pc # "done" => (~ret.returned /\ ret.preset = <<>> /\ ret.err = NoErr)
    /\ pc = "done" =>
          /\ ret.returned
          /\ \/ ret.preset # <<>> /\ ret.err = NoErr
             \/ ret.preset = <<>> /\ ret.err # NoErr
    /\ (pc = "done" /\ args.modelRepo # <<>> /\ ret.err # NoErr)
          => ret.err.kind \in ListingStageErrors \cup ConfigStageErrors
    /\ Succeeded => (Preset = g.Param /\ listing.status = 200 /\ configDoc.status = 200)

C11_Witness ==
    /\ pc = "done"
    /\ configDoc = Malformed
    /\ ret.err.kind = "error parsing config"
    /\ ret.preset = <<>>
    /\ g.Param.ModelFileSize # <<"0">> \o Lit_Gi

\* C12: the listing request comes first; the config request comes only after a listing
\* that returned 200, parsed and was classified, and names the config file of that
\* classification; no URL is requested twice; a generated preset took exactly two
\* requests and a failure at the listing stage exactly one.
C12_RequestOrder ==
    /\ Len(requests) <= 2
    /\ requests # <<>> => requests[1].url = ListingURL(args.modelRepo)
    /\ (requests = <<>>) = (pc = "start" \/ args.modelRepo = <<>>)
    /\ Len(requests) = 2 =>
          /\ listing.status = 200 /\ ~listing.netErr /\ listing.body.json = "array"
          /\ Classify(Files).found
          /\ requests[2].url =
                 <<HuggingFaceWebsite, "/">> \o args.modelRepo
                    \o <<"/resolve/main/", Classify(Files).configFile>>
          /\ requests[2].url # requests[1].url
    /\ Len(requests) < 2 => configDoc = NoResponse
    /\ Succeeded => Len(requests) = 2
    /\ (pc = "done" /\ ret.err # NoErr /\ args.modelRepo # <<>>)
          => (Len(requests) = 1) = (ret.err.kind \in ListingStageErrors)

C12_Witness ==
    /\ Succeeded
    /\ Len(requests) = 2
    /\ requests[1].url = ListingURL(Repo_mistral_large)
    /\ requests[2].url = ConfigURL(Repo_mistral_large, "params.json")

\* the files the code's patterns recognize as weight files
Recognized(files) == MistralFiles(files) \o WeightFiles(files)

\* C13: a listing in which no file is recognized as a weight file ends the call with
\* the error 'no .safetensors or .bin files found'; the config document is never
\* requested and no preset is returned.
C13_NoWeightFiles ==
    (/\ pc \notin {"start", "awaitListing"}
     /\ listing.status = 200 /\ ~listing.netErr
     /\ listing.body.json \in {"array", "null"}
     /\ Recognized(IF listing.body.json = "array" THEN Files ELSE <<>>) = <<>>)
    => /\ pc = "done"
       /\ ret.returned /\ ret.preset = <<>>
       /\ ret.err = [kind |-> "no .safetensors or .bin files found"]
       /\ Len(requests) = 1
       /\ configDoc = NoResponse

C13_Witness ==
    /\ pc = "done"
    /\ listing = OkList(<<File(Path_readme, Bytes(1, 0))>>)
    /\ ret.err = [kind |-> "no .safetensors or .bin files found"]
    /\ Len(requests) = 1

StatusError == [kind |-> "status", url |-> LastRequest.url, status |-> LastResponse.status]
AuthError == [kind |-> "authentication required", url |-> LastRequest.url]

\* C14: a 401 or 403 answer to either fetch sets DownloadAuthRequired on the generator
\* and fails the call, with the authentication-required error when the request carried
\* no Authorization header and with the status error naming the URL when it carried
\* one; any other status than 200 fails with the status error and leaves
\* DownloadAuthRequired as it was.
C14_AuthStatus ==
    (pc = "done" /\ requests # <<>> /\ ~LastResponse.netErr /\ LastResponse.status # 200)
    => /\ ret.preset = <<>>
       /\ ret.err.kind =
              (IF Len(requests) = 1 THEN "error listing files" ELSE "error fetching config")
       /\ IF LastResponse.status \in {401, 403}
          THEN /\ g.Param.DownloadAuthRequired
               /\ ret.err.cause = (IF LastRequest.auth = <<>> THEN AuthError ELSE StatusError)
          ELSE /\ ~g.Param.DownloadAuthRequired
               /\ ret.err.cause = StatusError

C14_Witness ==
    /\ pc = "done"
    /\ Len(requests) = 2
    /\ configDoc = Status(403)
    /\ LastRequest.auth = <<"Bearer ", "hf_env">>
    /\ g.Param.DownloadAuthRequired
    /\ ret.err = Wrap("error fetching config", StatusError)

\* some fetch of the call was answered 401 or 403
Denied(r) == ~r.netErr /\ r.status \in {401, 403}

\* C15, as stated: DownloadAuthRequired is true only if a fetch sent with no
\* Authorization header was answered 401 or 403.
C15_OnlyUnauthenticated ==
    (g # NoGenerator /\ g.Param.DownloadAuthRequired)
    => (Denied(LastResponse) /\ LastRequest.auth = <<>>)

\* C15, amended: DownloadAuthRequired is true only if a fetch, sent with or without an
\* Authorization header, was answered 401 or 403; in every other run it stays false,
\* and no returned preset carries it.
C15_OnlyDenied ==
    /\ (g # NoGenerator /\ g.Param.DownloadAuthRequired)
          => (pc = "done" /\ Denied(LastResponse))
    /\ Succeeded => ~Preset.DownloadAuthRequired

C15_Witness ==
    /\ pc = "done"
    /\ listing = Status(401)
    /\ g.Param.DownloadAuthRequired
    /\ requests[1].auth = <<"Bearer ", "hf_arg">>

----------------------------------------------------------------------------

\* the names and the latest instance the Register calls of a log have left
Registered(l) == {l[i].Name : i \in {j \in 1..Len(l) : ~l[j].panicked}}
LatestInstance(l, n) ==
    LET at == {i \in 1..Len(l) : l[i].Name = n /\ ~l[i].panicked}
    IN  IF at = {} THEN NilModel ELSE l[CHOOSE i \in at : \A j \in at : j <= i].Instance
Returns(gr) == calls[gr].at = "locked" /\ calls'[gr].at = "idle"

\* C17: after any Register calls with non-empty names, Has is true exactly of the
\* registered names, MustGet returns the instance of the latest Register of the name
\* and nil for a name never registered, ListModelNames returns each registered name
\* once, and no call removes an entry.
C17_Step ==
    /\ DOMAIN models \subseteq DOMAIN models'
    /\ DOMAIN models' = Registered(log')
    /\ \A gr \in Goroutines :
          Returns(gr) =>
             LET c == calls[gr]
                 v == calls'[gr].ret
             IN  /\ c.op = "Has" => v.has = (c.name \in Registered(log))
                 /\ c.op = "MustGet" => v.model = LatestInstance(log, c.name)
                 /\ c.op = "ListModelNames" =>
                       /\ Len(v.names) = Cardinality(Registered(log))
                       /\ {v.names[i] : i \in 1..Len(v.names)} = Registered(log)
                 /\ (c.op = "Register" /\ c.name # <<>>) =>
                       /\ ~calls'[gr].ret.panicked
                       /\ MustGet(models', c.name) = c.inst
                       /\ \A n \in DOMAIN models \ {c.name} : models'[n] = models[n]
C17_LastWriterWins == [][C17_Step]_vars

C17_Witness ==
    /\ Len(log) = 2
    /\ log[1] = LogEntry(Registration(Name_a, MockModel(1)), FALSE)
    /\ log[2] = LogEntry(Registration(Name_a, MockModel(2)), FALSE)
    /\ \E gr \in Goroutines :
          /\ calls[gr].at = "idle" /\ calls[gr].op = "MustGet" /\ calls[gr].name = Name_a
          /\ calls[gr].ret.model = MockModel(2)

\* C18: Register with an empty name panics, adds no entry and leaves the earlier ones
\* as they were, and releases the lock: the lock is only ever held by a goroutine
\* inside a method, and every call waiting for it returns.
C18_Step ==
    \A gr \in Goroutines :
       (Returns(gr) /\ calls[gr].op = "Register" /\ calls[gr].name = <<>>)
       => /\ calls'[gr].ret.panicked
          /\ models' = models
          /\ mu' = 0
C18_PanicReleasesLock ==
    /\ [][C18_Step]_vars
    /\ [](mu # 0 => calls[mu].at = "locked")
    /\ \A gr \in Goroutines : (calls[gr].at = "waiting") ~> (calls[gr].at = "idle")

C18_Witness ==
    /\ Len(log) = 2
    /\ log[1].panicked
    /\ ~log[2].panicked
    /\ mu = 0
    /\ models = (log[2].Name :> Registration(log[2].Name, log[2].Instance))

----------------------------------------------------------------------------
(* GetModelByName and GetInferenceParameters *)

\* the run parameters the caller was handed, and the metadata of the model it asked
RunParams == gm.params[1].VLLM.ModelRunParams
Asked == gm.model.model

\* C16: whenever GetInferenceParameters has returned, its run-parameter map holds
\* trust-remote-code (empty) and dtype (Metadata.DType, or "bfloat16" when that is
\* empty); tool-call-parser (= ToolCallParser) and enable-auto-tool-choice (empty)
\* exactly when ToolCallParser is non-empty; chat-template
\* (= "/workspace/chat_templates/" + ChatTemplate) exactly when ChatTemplate is
\* non-empty; allow-remote-files (empty) exactly when AllowRemoteFiles;
\* reasoning-parser (= ReasoningParser) exactly when ReasoningParser is non-empty;
\* and no other key.
C16_RunParams ==
    gm.at = "asked" =>
        /\ DOMAIN RunParams =
             {"trust-remote-code", "dtype"}
             \cup (IF Asked.ToolCallParser # ""
                   THEN {"tool-call-parser", "enable-auto-tool-choice"} ELSE {})
             \cup (IF Asked.ChatTemplate # <<>> THEN {"chat-template"} ELSE {})
             \cup (IF Asked.AllowRemoteFiles THEN {"allow-remote-files"} ELSE {})
             \cup (IF Asked.ReasoningParser # "" THEN {"reasoning-parser"} ELSE {})
        /\ RunParams["trust-remote-code"] = ""
        /\ RunParams["dtype"] = (IF Asked.DType = "" THEN "bfloat16" ELSE Asked.DType)
        /\ Asked.ToolCallParser # "" =>
             /\ RunParams["tool-call-parser"] = Asked.ToolCallParser
             /\ RunParams["enable-auto-tool-choice"] = ""
        /\ Asked.ChatTemplate # <<>> =>
             RunParams["chat-template"] = Lit_chat_templates \o Asked.ChatTemplate
        /\ Asked.AllowRemoteFiles => RunParams["allow-remote-files"] = ""
        /\ Asked.ReasoningParser # "" => RunParams["reasoning-parser"] = Asked.ReasoningParser

\* GetInferenceParameters returned for a model with every optional field set
C16_Witness ==
    /\ gm.at = "asked"
    /\ Asked.DType = "float16"
    /\ Asked.ToolCallParser = "hermes"
    /\ Asked.ChatTemplate = Name_template
    /\ Asked.AllowRemoteFiles
    /\ Asked.ReasoningParser = "deepseek_r1"
    /\ DOMAIN RunParams = {"trust-remote-code", "dtype", "tool-call-parser",
                           "enable-auto-tool-choice", "chat-template",
                           "allow-remote-files", "reasoning-parser"}

\* the name GetModelByName looks up
Lowered == ToLower(gm.modelName)

\* C19: a GetModelByName call whose lower-cased name is registered returns in one
\* step the instance registered under that name with a nil error; it passes no key to
\* kubeClient.Get, sends no request to the hub, starts no preset generation and leaves
\* the register as it was, whatever the client and the context are.
C19_Step ==
    (gm.at = "called" /\ Has(models, Lowered)) =>
        /\ gm'.at = "returned"
        /\ gm'.model = models[Lowered].Instance
        /\ gm'.model # NilModel
        /\ gm'.err = NoErr
        /\ gm'.gets = <<>>
        /\ requests' = requests
        /\ pc' = pc
        /\ models' = models
        /\ log' = log
C19_RegisteredFastPath == [][C19_Step]_vars

\* a mixed-case name found under its lower-case form, with a secret named, a nil
\* client and a cancelled context
C19_Witness ==
    /\ gm.at = "returned"
    /\ gm.modelName = Repo_qwen3_8b
    /\ gm.modelName # Lowered
    /\ Has(models, Lowered)
    /\ gm.model = models[Lowered].Instance
    /\ gm.err = NoErr
    /\ gm.secretName # ""
    /\ gm.kubeClient.isNil
    /\ gm.ctxCancelled
    /\ gm.gets = <<>>
    /\ requests = <<>>

\* GetModelByName has returned
Returned == gm.at \in {"returned", "asked"}

\* C20: GetModelByName never returns a nil model with a nil error.
C20_ModelOrError ==
    Returned => (gm.model = NilModel <=> gm.err # NoErr)

----------------------------------------------------------------------------
(* What a successful GeneratePreset hands back *)

\* C29: every preset that GeneratePreset returns with a nil error has
\* DownloadAuthRequired = false, and a run in which a fetch was answered 401 or 403
\* returns no preset.
C29_NoAuthFlagReturned ==
    /\ Succeeded => (ret.preset # <<>> /\ ~ret.preset[1].DownloadAuthRequired)
    /\ (ret.returned /\ (Denied(listing) \/ Denied(configDoc))) =>
           (ret.err # NoErr /\ ret.preset = <<>>)

\* a preset returned to a caller whose requests carried a token
C29_Witness ==
    /\ Succeeded
    /\ Len(requests) = 2
    /\ requests[1].auth # <<>>
    /\ ~ret.preset[1].DownloadAuthRequired
    /\ g.Param.DownloadAuthRequired = FALSE

----------------------------------------------------------------------------
(* Parser selection *)

\* the keys of a table that are prefixes of the generator's model name
PrefixesIn(table) == {k \in DOMAIN table : HasPrefix(g.Param.Name, k)}

\* ParseModelMetadata has run
Parsed == pc = "finalize" \/ Succeeded

\* C26: no key of reasoningParserMap is a prefix of another key; so once
\* ParseModelMetadata has run, at most one key is a prefix of the lower-cased model
\* name, ReasoningParser is that key's value whichever order the map was ranged in,
\* and it is empty when no key is a prefix.
C26_ReasoningParserUnique ==
    /\ \A k1, k2 \in DOMAIN reasoningParserMap : k1 # k2 => ~HasPrefix(k1, k2)
    /\ Parsed =>
         /\ Cardinality(PrefixesIn(reasoningParserMap)) <= 1
         /\ \A k \in PrefixesIn(reasoningParserMap) :
              g.Param.ReasoningParser = reasoningParserMap[k]
         /\ PrefixesIn(reasoningParserMap) = {} => g.Param.ReasoningParser = ""

\* a name that two tool-call keys are prefixes of, and exactly one reasoning key
C26_Witness ==
    /\ Parsed
    /\ g.Param.Name = Name_qwen3_coder
    /\ Cardinality(PrefixesIn(toolCallParserMap)) = 2
    /\ Cardinality(PrefixesIn(reasoningParserMap)) = 1
    /\ g.Param.ReasoningParser = "qwen3"

\* strings over two letters, up to MaxKeyLen long: keys and names of any prefix table
MaxKeyLen == 3
RECURSIVE StringsUpTo(_)
StringsUpTo(n) ==
    IF n = 0 THEN {<<>>}
    ELSE StringsUpTo(n - 1)
         \cup {Append(s, c) : s \in {t \in StringsUpTo(n - 1) : Len(t) = n - 1}, c \in {"a", "b"}}

\* C28: of two keys that are prefixes of one name the shorter is a prefix of the longer
\* and sorts before it, in any table; so once ParseModelMetadata has run,
\* ToolCallParser is the value of the longest key of toolCallParserMap that is a prefix
\* of the lower-cased model name, and it is empty exactly when no key is a prefix.
C28_LongestPrefixWins ==
    /\ \A n \in StringsUpTo(MaxKeyLen) :
         \A a, b \in {k \in StringsUpTo(MaxKeyLen) : HasPrefix(n, k)} :
            Len(a) < Len(b) => (HasPrefix(b, a) /\ StrLess(a, b) /\ ~StrLess(b, a))
    /\ \A a, b \in DOMAIN toolCallParserMap :
         (HasPrefix(b, a) /\ a # b) => StrLess(a, b)
    /\ Parsed =>
         /\ \A k \in PrefixesIn(toolCallParserMap) :
              (\A q \in PrefixesIn(toolCallParserMap) : Len(q) <= Len(k))
              => g.Param.ToolCallParser = toolCallParserMap[k]
         /\ g.Param.ToolCallParser = "" <=> PrefixesIn(toolCallParserMap) = {}

\* deepseek-v3.1: the keys deepseek-v3 and deepseek-v3.1 are prefixes, the longer wins
C28_Witness ==
    /\ Parsed
    /\ g.Param.Name = Name_deepseek_v31
    /\ Cardinality(PrefixesIn(toolCallParserMap)) = 2
    /\ g.Param.ToolCallParser = "deepseek_v31"

----------------------------------------------------------------------------
(* getInt and ModelTokenLimit *)

\* the positions in TokenLimitKeys of the keys the config holds
PresentLimitKeys == {i \in 1..Len(TokenLimitKeys) : TokenLimitKeys[i] \in DOMAIN Config}

\* a JSON number, or a string strconv.Atoi accepts; and the integer it stands for
Readable(val) == val.t = "float64" \/ (val.t = "string" /\ Atoi(val.s).ok)
IntOf(val) == IF val.t = "float64" THEN FloatToInt(val.h) ELSE Atoi(val.s).v

ReadableLimitKeys == {i \in PresentLimitKeys : Readable(Config[TokenLimitKeys[i]])}
First(S) == CHOOSE i \in S : \A j \in S : i <= j

\* C24, as stated: ModelTokenLimit is the value, coerced to an integer, of the first
\* key of the list that is present in the config, and 2048 only when none is present.
C24_FirstPresentKey ==
    Succeeded =>
        IF PresentLimitKeys = {} THEN Preset.ModelTokenLimit = DefaultModelTokenLimit
        ELSE /\ Readable(Config[TokenLimitKeys[First(PresentLimitKeys)]])
             /\ Preset.ModelTokenLimit = IntOf(Config[TokenLimitKeys[First(PresentLimitKeys)]])

\* C24, amended: ModelTokenLimit is the value of the first key of the list whose value
\* is a JSON number (truncated toward zero) or a string that parses as a decimal
\* integer; keys holding anything else are passed over, and the result is 2048 when no
\* key holds such a value.
C24_FirstReadableKey ==
    Succeeded =>
        IF ReadableLimitKeys = {} THEN Preset.ModelTokenLimit = DefaultModelTokenLimit
        ELSE Preset.ModelTokenLimit = IntOf(Config[TokenLimitKeys[First(ReadableLimitKeys)]])

\* max_position_embeddings holds a string that parses, and the limit is its value
C24_Witness ==
    /\ Succeeded
    /\ "max_position_embeddings" \in DOMAIN Config
    /\ Config["max_position_embeddings"] = Str(<<"8","1","9","2">>)
    /\ "n_ctx" \in DOMAIN Config
    /\ Preset.ModelTokenLimit = 8192

----------------------------------------------------------------------------
(* headDim and kvHeads *)

HiddenSizeOf == getInt(Config, HiddenSizeKeys, 0)
MultiQuery == HasKey("multi_query") /\ Config["multi_query"] = Bool(TRUE)
HeldKVKeys == {i \in 1..Len(KVHeadsKeys) : HasKey(KVHeadsKeys[i])}
\* the head_dim and KV-head fields the config holds are whole numbers
WholeNumber(val) == val.t = "float64" /\ val.h % 2 = 0
HeadFieldsWhole ==
    \A k \in {"head_dim"} \cup {KVHeadsKeys[i] : i \in 1..Len(KVHeadsKeys)} :
        HasKey(k) => WholeNumber(Config[k])

\* what calculateKVCacheTokenSize returns when it works with these two values
KVCacheWith(kvHeads, headDim) ==
    LET a == Attention(getInt(Config, <<"kv_lora_rank">>, NoKvLoraRank),
                       Field("qk_rope_head_dim"), AttentionHeadsOf, kvHeads, headDim)
    IN  [tokenSize |-> TokenSize(a.elementsPerToken, LayersRead), attnType |-> a.attnType]
Returned_KVCache == [tokenSize |-> Preset.BytesPerToken, attnType |-> Preset.AttnType]

\* C23, as stated: headDim is the head_dim field whenever the config holds it, and
\* kvHeads is the first KV-head field the config holds; the derived values are used only
\* for fields the config lacks, so an explicit 0 stays 0.
C23_PresentFieldWins ==
    (Succeeded /\ HeadFieldsWhole) =>
        Returned_KVCache =
            KVCacheWith(IF HeldKVKeys # {} THEN Field(KVHeadsKeys[First(HeldKVKeys)])
                        ELSE IF MultiQuery THEN 1 ELSE AttentionHeadsOf,
                        IF HasKey("head_dim") THEN Field("head_dim")
                        ELSE IF AttentionHeadsOf > 0 THEN HiddenSizeOf \div AttentionHeadsOf
                        ELSE 0)

\* C23, amended: headDim is the head_dim field when it reads as a non-zero integer, else
\* hiddenSize / attentionHeads when attentionHeads > 0; kvHeads is the first readable
\* KV-head field when that is non-zero, else, when attentionHeads > 0, 1 for multi_query
\* true and attentionHeads otherwise. A field that holds 0 is treated like a missing one.
C23_NonZeroFieldWins ==
    Succeeded =>
        Returned_KVCache =
            KVCacheWith(IF getInt(Config, KVHeadsKeys, 0) # 0 \/ AttentionHeadsOf <= 0
                        THEN getInt(Config, KVHeadsKeys, 0)
                        ELSE IF MultiQuery THEN 1 ELSE AttentionHeadsOf,
                        IF Field("head_dim") # 0 \/ AttentionHeadsOf <= 0
                        THEN Field("head_dim")
                        ELSE HiddenSizeOf \div AttentionHeadsOf)

\* head_dim is given as 0 and the derived head dimension is what the result is built on
C23_Witness ==
    /\ Succeeded
    /\ HasKey("head_dim")
    /\ Config["head_dim"] = Num(0)
    /\ ~HasKey("kv_lora_rank")
    /\ HiddenSizeOf = 8
    /\ AttentionHeadsOf = 2
    /\ Preset.AttnType = "MHA"
    /\ Preset.BytesPerToken = 2 * 2 * 4 * LayersRead * 2
    /\ LayersRead > 0

----------------------------------------------------------------------------
(* Attention classification as a function of its inputs *)

\* attentionHeads, kvHeads and headDim as calculateKVCacheTokenSize works them out
HeadInputs(config) ==
    LET attentionHeads == getInt(config, AttentionKeys, 0)
    IN  <<attentionHeads,
          FallbackKVHeads(getInt(config, KVHeadsKeys, 0), attentionHeads, config),
          DeriveHeadDim(getInt(config, <<"head_dim">>, 0),
                        getInt(config, HiddenSizeKeys, 0), attentionHeads)>>

\* the configs a returned preset's config is compared with
OtherConfigs ==
    {("hidden_size" :> Num(8)) @@ a @@ k @@ d @@ r :
        a \in Opt("num_attention_heads", {Num(2)}),
        k \in Opt("num_key_value_heads", {Num(1), Num(2)}),
        d \in Opt("head_dim", {Num(3)}),
        r \in Opt("kv_lora_rank", {Num(-1), Num(4)})}

\* kv_lora_rank reads as an integer other than -1
ReadsKvLoraRank(config) == getInt(config, <<"kv_lora_rank">>, NoKvLoraRank) # NoKvLoraRank

\* of each of them: the three head inputs, whether it holds kv_lora_rank, whether that
\* reads as a rank, and the AttnType calculateKVCacheTokenSize gives it
OtherResults ==
    {[heads |-> HeadInputs(other), held |-> "kv_lora_rank" \in DOMAIN other,
      rank |-> ReadsKvLoraRank(other),
      attnType |-> calculateKVCacheTokenSize(other).attnType] : other \in OtherConfigs}

\* C22, as stated: two configs that agree on attentionHeads, kvHeads, headDim and on
\* whether they hold a kv_lora_rank field get the same AttnType.
C22_SameInputsByPresence ==
    Succeeded =>
        LET heads == HeadInputs(Config)
        IN  \A other \in OtherResults :
                (other.heads = heads /\ other.held = HasKey("kv_lora_rank"))
                => other.attnType = Preset.AttnType

\* C22, amended: two configs that agree on attentionHeads, kvHeads, headDim and on
\* whether kv_lora_rank reads as an integer other than -1 get the same AttnType, and
\* computing again on the config of a returned preset gives the AttnType and the
\* BytesPerToken that were returned.
C22_SameInputsSameType ==
    Succeeded =>
        LET heads == HeadInputs(Config)
            rank  == ReadsKvLoraRank(Config)
        IN  /\ \A other \in OtherResults :
                  (other.heads = heads /\ other.rank = rank)
                  => other.attnType = Preset.AttnType
            /\ calculateKVCacheTokenSize(Config) = Returned_KVCache

\* a returned preset whose config agrees on the four inputs with a different config
C22_Witness ==
    /\ Succeeded
    /\ Preset.AttnType = "MQA"
    /\ MultiQuery
    /\ \E other \in OtherConfigs :
          /\ other # Config
          /\ "multi_query" \notin DOMAIN other
          /\ HeadInputs(other) = HeadInputs(Config)
          /\ "kv_lora_rank" \notin DOMAIN other /\ ~HasKey("kv_lora_rank")
          /\ calculateKVCacheTokenSize(other).attnType = "MQA"

----------------------------------------------------------------------------
(* Architectures *)

\* the string entries of the config's architectures array, in order; none when the
\* field is missing or is not an array
IsString(val) == val.t = "string"
ArchStrings ==
    IF HasKey("architectures") /\ Config["architectures"].t = "array"
    THEN LET strs == SelectSeq(Config["architectures"].a, IsString)
         IN  [i \in 1..Len(strs) |-> strs[i].s]
    ELSE <<>>

\* the single architecture the model name stands for, if any
ByName ==
    IF HasPrefix(Preset.Name, Lit_mistral_large_3) THEN <<"MistralLarge3ForCausalLM">>
    ELSE IF HasPrefix(Preset.Name, Lit_ministral_3) THEN <<"Mistral3ForConditionalGeneration">>
    ELSE <<>>

\* C25, as stated: Architectures is the list of string entries of the architectures
\* array when the config holds that field; the list by name is used only when the config
\* holds no architectures field; the list is never nil.
C25_ByNameOnlyWhenAbsent ==
    Succeeded =>
        /\ ~Preset.Architectures.isNil
        /\ Preset.Architectures.items = (IF HasKey("architectures") THEN ArchStrings ELSE ByName)

\* C25, amended: Architectures is the list of string entries of the architectures array,
\* in order, when there is at least one; when there is none (the field is missing, is not
\* an array, or holds no string) it is the list by name for the two name prefixes, and
\* empty otherwise; it is never nil.
C25_ByNameWhenNoneParsed ==
    Succeeded =>
        /\ ~Preset.Architectures.isNil
        /\ Preset.Architectures.items = (IF ArchStrings # <<>> THEN ArchStrings ELSE ByName)

\* mistral-large-3 with an architectures array that holds strings among other entries:
\* the strings are kept, in order, and the name is not consulted
C25_Witness ==
    /\ Succeeded
    /\ args.modelRepo = Repo_mistral_large
    /\ HasKey("architectures")
    /\ Config["architectures"].t = "array"
    /\ Len(Config["architectures"].a) = 3
    /\ Preset.Architectures = [isNil |-> FALSE, items |-> <<"LlamaForCausalLM">>]

----------------------------------------------------------------------------
(* From the generated preset to the parameters of the registered model *)

\* the caller holds the parameters of a model that this call generated and registered
AskedOfGenerated == gm.at = "asked" /\ Succeeded

\* C27: the run parameters that GetInferenceParameters returns for a model generated
\* and registered through GetModelByName carry the load_format, config_format and
\* tokenizer_mode that the generator put in the preset's VLLM.ModelRunParams.
C27_FormatsReachRunParams ==
    AskedOfGenerated =>
        \A k \in {"load_format", "config_format", "tokenizer_mode"} :
            /\ k \in DOMAIN Preset.VLLM.ModelRunParams.kv
            /\ k \in DOMAIN RunParams
            /\ RunParams[k] = Preset.VLLM.ModelRunParams.kv[k]

----------------------------------------------------------------------------
(* Failures are not remembered *)

\* an earlier call for the name now asked for came back with an error
FailedBefore ==
    \E i \in 1..Len(gm.prev) : gm.prev[i].name = Lowered /\ gm.prev[i].err # NoErr

\* C21: a GetModelByName call that fails after generator.GeneratePreset (generation
\* error, or no reported architecture in vLLMModelArchMap) returns nil and leaves the
\* register as it was; and a later call for the same name, still unregistered, goes
\* through the token lookup and a fresh GeneratePreset call as the first one did.
C21_Step ==
    /\ (gm.at = "generating" /\ gm'.at = "returned" /\ gm'.err # NoErr) =>
          (gm'.model = NilModel /\ models' = models /\ log' = log)
    /\ (/\ gm.at = "called"
        /\ FailedBefore
        /\ ~Has(models, Lowered)
        /\ ContainsSlash(Lowered)
        /\ Lowered \notin DOMAIN builtinVLLMModels) =>
          /\ gm'.at = "generating"
          /\ pc' = "start"
          /\ args'.modelRepo = Lowered
          /\ g' = NoGenerator
C21_NoNegativeCache == [][C21_Step]_vars

\* the first call failed on an unsupported architecture after both fetches; the second
\* sent both requests again, was answered a supported one, and returned a model
C21_Witness ==
    /\ gm.at = "returned"
    /\ Len(gm.prev) = 1
    /\ gm.prev[1].name = Lowered
    /\ gm.prev[1].err = [kind |-> "unsupported model architecture"]
    /\ gm.prev[1].requests = 2
    /\ Len(requests) = 4
    /\ gm.err = NoErr
    /\ gm.model # NilModel
    /\ Has(models, Lowered)
    /\ models[Lowered].Instance = gm.model

\* the last Register call for a name in the log, 0 when there is none
LastRegister(name) ==
    LET S == {i \in 1..Len(log) : log[i].Name = name} IN
    IF S = {} THEN 0 ELSE CHOOSE i \in S : \A j \in S : j <= i

\* C30: with GetModelByName called from two goroutines for one unregistered hub name,
\* in every interleaving: a call that returns no error returns a non-nil model; the
\* register holds at most one entry, under that name, with the instance of the last
\* Register call; at most one goroutine is inside a register method and it holds the
\* lock; and a call begun once the name is registered and no other call is under way
\* returns the instance the register holds.
C30_ConcurrentCalls ==
    /\ \A gr \in Goroutines :
          (gm[gr].at = "returned" /\ gm[gr].err = NoErr) => gm[gr].model # NilModel
    /\ \A name \in DOMAIN models :
          /\ DOMAIN models = {name}
          /\ LastRegister(name) # 0
          /\ models[name].Instance = log[LastRegister(name)].Instance
    /\ \A gr \in Goroutines : LastRegister(gm[gr].modelName) # 0 => Has(models, gm[gr].modelName)
    /\ \A gr \in Goroutines : calls[gr].at = "locked" => mu = gr
    /\ Cardinality({gr \in Goroutines : calls[gr].at = "locked"}) <= 1
    /\ \A gr \in Goroutines :
          (gm[gr].settled /\ gm[gr].at = "returned") =>
              /\ gm[gr].err = NoErr
              /\ gm[gr].model = models[gm[gr].modelName].Instance

\* both goroutines missed the name, generated and registered: two Register calls with
\* differing instances, each call returned its own, the register holds the later one,
\* and a further call by the first goroutine returned that one
C30_Witness ==
    /\ Len(log) = 2
    /\ log[1].Instance # log[2].Instance
    /\ \A gr \in Goroutines : gm[gr].at = "returned" /\ gm[gr].err = NoErr
    /\ gm[1].n = 2 /\ gm[1].settled
    /\ gm[2].n = 1
    /\ gm[2].model # gm[1].model
    /\ gm[1].model = log[2].Instance
    /\ models[gm[1].modelName].Instance = log[2].Instance

====
